---- MODULE Spec2Model ----
(***************************************************************************)
(* Tag-enrichment pipeline of navidrome (server/nativeapi, core/lyrics,    *)
(* core/trackanalysis, adapters/taglib): the SetTag handlers (setEnergy,   *)
(* setMood) and the lyrics / track-data batch handlers over an album or a  *)
(* playlist, with the audio file's tag block and the database record of    *)
(* each song as the two stores they write.                                 *)
(***************************************************************************)
EXTENDS Integers, Sequences, FiniteSets, TLC

(* ------------------------------ bounds --------------------------------- *)
\* number of media files in the library
NumSongs == 1
\* largest member list of an album or playlist
MaxBatch == 2
\* SetTag requests served in one behaviour (ticks of the clock)
MaxClock == 2
\* goroutines that call a capability probe
NumCallers == 2
\* calls of taglib.Read / taglib.WriteTag in one behaviour
MaxLibCalls == 3
\* classifications of the same metrics, and calls of Analyze, in one
\* behaviour
MaxAnalyses == 2
\* clicks on the squares of the widgets in one behaviour
MaxClicks == 3

Songs == 1..NumSongs
\* an id no media file has (ds.MediaFile.Get answers ErrNotFound)
NoSong == 0

(* --------------------------- strings as code --------------------------- *)
\* keys are sequences of one-character strings, so that strings.ToLower and
\* strings.HasPrefix are computed rather than assumed
UpperChars == <<"A","B","C","D","E","F","G","H","I","J","K","L","M",
                "N","O","P","Q","R","S","T","U","V","W","X","Y","Z">>
LowerChars == <<"a","b","c","d","e","f","g","h","i","j","k","l","m",
                "n","o","p","q","r","s","t","u","v","w","x","y","z">>

\* unicode.ToLower on the letters A..Z
LowerOf ==
    [c \in {UpperChars[i] : i \in 1..26} |->
        LowerChars[CHOOSE i \in 1..26 : UpperChars[i] = c]]

ToLowerChar(c) == IF c \in DOMAIN LowerOf THEN LowerOf[c] ELSE c

\* strings.ToLower
ToLower(s) == [i \in 1..Len(s) |-> ToLowerChar(s[i])]

\* strings.HasPrefix
HasPrefix(s, p) == Len(s) >= Len(p) /\ SubSeq(s, 1, Len(p)) = p

\* strings.Contains
Contains(s, p) ==
    \E i \in 1..(Len(s) + 1) :
        i + Len(p) - 1 <= Len(s) /\ SubSeq(s, i, i + Len(p) - 1) = p

sLyricsPrefix == <<"l","y","r","i","c","s",":">>
sXXX == <<"x","x","x">>
sENG == <<"E","N","G">>
sEnergyval == <<"e","n","e","r","g","y","v","a","l">>
sHappiness == <<"h","a","p","p","i","n","e","s","s">>
sInstrumentalness ==
    <<"i","n","s","t","r","u","m","e","n","t","a","l","n","e","s","s">>
sENERGY == <<"E","N","E","R","G","Y">>
sMOOD == <<"M","O","O","D">>
sENERGYVAL == <<"E","N","E","R","G","Y","V","A","L">>
sHAPPINESS == <<"H","A","P","P","I","N","E","S","S">>
sINSTRUMENTALNESS ==
    <<"I","N","S","T","R","U","M","E","N","T","A","L","N","E","S","S">>
sUNSYNCEDLYRICS ==
    <<"U","N","S","Y","N","C","E","D","L","Y","R","I","C","S">>
sTXXXUNSYNCEDLYRICS == <<"T","X","X","X",":">> \o sUNSYNCEDLYRICS

(* ------------------------- the audio file's tags ----------------------- *)
\* An entry of a file's tag block is a property <<"prop", NAME>> or a lyrics
\* frame <<"lyrics", language>>; a tag block maps its entries to a value.
Prop(name) == <<"prop", name>>
LyricsFrame(lang) == <<"lyrics", lang>>

eLyricsXXX == LyricsFrame(sXXX)
eLyricsENG == LyricsFrame(sENG)
eUnsynced == Prop(sUNSYNCEDLYRICS)
eTxxxUnsynced == Prop(sTXXXUNSYNCEDLYRICS)
eEnergyval == Prop(sENERGYVAL)
eHappiness == Prop(sHAPPINESS)
eInstrumentalness == Prop(sINSTRUMENTALNESS)
eEnergy == Prop(sENERGY)
eMood == Prop(sMOOD)

\* the key under which taglib.Read reports an entry: goPutLyrics prepends
\* "lyrics:" to the language, doPutTag lower-cases every key
ReadKey(e) ==
    IF e[1] = "lyrics" THEN ToLower(sLyricsPrefix \o e[2]) ELSE ToLower(e[2])

\* taglib.Read on a readable file: key -> list of values
ReadTags(block) ==
    [k \in {ReadKey(e) : e \in DOMAIN block} |->
        <<block[CHOOSE e \in DOMAIN block : ReadKey(e) = k]>>]

\* a write that saves a property map holding the one tag alone
WriteTagAlone(block, name, value) ==
    IF value = "" THEN [e \in {} |-> ""] ELSE [e \in {Prop(name)} |-> value]

\* taglib.WriteTag that succeeded: an empty value removes the tag
WriteTag(block, name, value) ==
    IF value = ""
    THEN [e \in (DOMAIN block) \ {Prop(name)} |-> block[e]]
    ELSE [e \in (DOMAIN block) \cup {Prop(name)} |->
            IF e = Prop(name) THEN value ELSE block[e]]

\* taglib.WriteLyrics that succeeded: one lyrics frame for the language
WriteLyrics(block, lang, text) ==
    [e \in (DOMAIN block) \cup {LyricsFrame(lang)} |->
        IF e = LyricsFrame(lang) THEN text ELSE block[e]]

Block(entries, value) == [e \in entries |-> value]
EmptyBlock == Block({}, "")

(* ------------------------------ state ---------------------------------- *)
VARIABLES
    file,        \* file[s]: tag block of the audio file of song s
    db,          \* db[s]: database record (model.MediaFile) of song s
    now,         \* wall clock, as the number of SetTag requests received
    req,         \* the SetTag request being answered: op, id, value, fault
    tagStatus,   \* HTTP status of the last SetTag response (0: none yet)
    tagBody,     \* JSON body of the last SetTag response (<<>>: error text)
    probe,       \* memoized capability probes (sync.Once), per provider
    pc,          \* position of the batch handler: idle, loop, done
    kind,        \* "lyrics" or "trackdata" batch
    found,       \* what the lookup of the member files answered
    songs,       \* member files loaded by the handler (copies of records)
    idx,         \* number of member files the loop has processed
    counters,    \* running fetched / failed / skipped (and total)
    status,      \* HTTP status of the batch response (0: none yet)
    resp,        \* counters written as the response body (<<>>: none)
    calls,       \* calls made by the latest loop iteration, in order
    outcomes,    \* outcome of each member file processed so far
    fpc,         \* position of a FetchTrackData call: call, do, wait, returned
    attempt,     \* loop variable of the retry loop
    requests,    \* calls of client.Do made so far
    responses,   \* status codes of the responses received, in order
    waits,       \* backoff waits started so far, in seconds, in order
    remaining,   \* seconds left of the backoff wait in progress
    elapsed,     \* seconds spent waiting so far
    ctxDone,     \* the caller's context is cancelled
    fret,        \* what the call returned
    work,        \* calls of processSong made by the track-data loop, in
                 \* order: position, result of the tag read, retry attempt
    target,      \* the capability probe the callers use
    env,         \* what the environment offers right now
    once,        \* the sync.Once of the probe: done flag, holder of its lock
    cached,      \* the package variables the probe body assigns
    cpc,         \* cpc[c]: position of caller c in the probe function
    seen,        \* seen[c]: what the last call of caller c returned
    runs,        \* executions of the probe body so far
    alive,       \* the server process is running
    allMaps,     \* ids registered in taglib's map registry
    mapsNextID,  \* the registry's id counter
    libCalls,    \* calls of taglib.Read / taglib.WriteTag made so far
    lastCall,    \* the latest of them: what happened and what it returned
    metrics,     \* the AudioMetrics parsed from the extractor's output
    analysis,    \* what each classifyEnergy(metrics) returned, in order
    apc,         \* position of an Analyze call: idle, running, returned
    acalls,      \* calls of Analyze made so far
    tmpFiles,    \* temporary output files that exist
    tmpName,     \* the temporary file the latest call created ({}: none)
    toolOut,     \* how the extractor ended and what it wrote
    aresult,     \* what the latest Analyze call returned
    genius,      \* the latest call of FetchFromGenius and its return
    record,      \* the record the EnergyField and MoodField widgets show
    loading,     \* the loading state of each widget
    upc,         \* where each widget's update is
    sent,        \* the update requests the widgets have sent
    clicks,      \* clicks on squares so far
    clicked,     \* the latest click: widget and square
    notified,    \* whether a widget has shown the error notification
    stored,      \* the values the server holds for the record's song
    reads,       \* reads[c]: the call of taglib.Read that caller c makes:
                 \* position, file, id, callbacks delivered, its map m,
                 \* what it returned
    refs,        \* refs[id]: the call whose map allMaps holds under id
    lower,       \* metrics classified before one of them was raised
    first,       \* member files and outcomes of the batch request before
                 \* the present one (<<>>: there was none)
    hs           \* hs[h]: the SetTag request that handler h is serving by
                 \* itself, one database or file call at a time: position,
                 \* song, value, the record mf it loaded, status answered

tagVars == <<file, db, now, req, tagStatus, tagBody>>
batchVars == <<probe, pc, kind, found, songs, idx, counters, status, resp,
               calls, outcomes>>
fetchVars == <<fpc, attempt, requests, responses, waits, remaining, elapsed,
               ctxDone, fret>>
vars == <<file, db, now, req, tagStatus, tagBody, probe, pc, kind, found,
          songs, idx, counters, status, resp, calls, outcomes,
          fpc, attempt, requests, responses, waits, remaining, elapsed,
          ctxDone, fret, work, target, env, once, cached, cpc, seen, runs,
          alive, allMaps, mapsNextID, libCalls, lastCall, metrics, analysis,
          apc, acalls, tmpFiles, tmpName, toolOut, aresult, genius,
          record, loading, upc, sent, clicks, clicked, notified, stored,
          reads, refs, lower, first, hs>>
onceVars == <<target, env, once, cached, cpc, seen, runs>>
libVars == <<alive, allMaps, mapsNextID, libCalls, lastCall>>

\* what the SetTag and batch handlers leave alone
audioVars == <<metrics, analysis>>
analyzeVars == <<apc, acalls, tmpFiles, tmpName, toolOut, aresult>>
uiVars == <<record, loading, upc, sent, clicks, clicked, notified, stored>>
regVars == <<reads, refs>>
lastVars == <<lower, first, hs>>
restVars == <<genius, uiVars, regVars, lastVars>>
laterVars == <<analyzeVars, restVars>>
otherVars == <<fetchVars, work, onceVars, libVars, audioVars, laterVars>>

(* --------------------------- database record --------------------------- *)
NoTags == [n \in {} |-> <<>>]
NewRecord == [lyrics |-> "", tags |-> NoTags, updatedAt |-> 0]

\* an update that stores the empty string instead of deleting the entry
UpdateTagsKeepEmpty(tags, name, value) ==
    [n \in (DOMAIN tags) \cup {name} |->
        IF n = name THEN <<value>> ELSE tags[n]]

\* an update that adds the value to the values already stored
UpdateTagsAppend(tags, name, value) ==
    IF value = ""
    THEN [n \in (DOMAIN tags) \ {name} |-> tags[n]]
    ELSE [n \in (DOMAIN tags) \cup {name} |->
            IF n # name THEN tags[n]
            ELSE IF name \in DOMAIN tags THEN Append(tags[name], value)
            ELSE <<value>>]

\* mf.Tags[name] = []string{value}, or delete(mf.Tags, name) for ""
UpdateTags(tags, name, value) ==
    IF value = ""
    THEN [n \in (DOMAIN tags) \ {name} |-> tags[n]]
    ELSE [n \in (DOMAIN tags) \cup {name} |->
            IF n = name THEN <<value>> ELSE tags[n]]

(* ------------------------------- SetTag -------------------------------- *)
\* an enumeration that lets an unknown level through
validEnergyValuesNoCheck == {"", "low", "medium", "high", "extreme"}
validEnergyValues == {"", "low", "medium", "high"}
validMoodValues == {"", "negative", "neutral", "positive"}

\* values a client may send
RequestValues ==
    {"", "low", "medium", "high", "negative", "neutral", "positive",
     "extreme"}

\* the one thing that goes wrong while a request is served, if any: the
\* body does not decode, ds.MediaFile.Get fails with an error other than
\* ErrNotFound, taglib.WriteTag fails, ds.MediaFile.Put fails
Faults == {"none", "decode", "get", "fileWrite", "dbPut"}

Answer(st, body, block, rec) ==
    [status |-> st, body |-> body, block |-> block, rec |-> rec]

\* a handler that persists the record before it writes the file
setTagDbFirst(name, tagName, valid, id, exists, rec, block, value, fault, t) ==
    LET mf == [rec EXCEPT !.tags = UpdateTags(rec.tags, name, value),
                          !.updatedAt = t]
    IN  IF fault = "decode" THEN Answer(400, <<>>, block, rec)
        ELSE IF value \notin valid THEN Answer(400, <<>>, block, rec)
        ELSE IF ~exists THEN Answer(404, <<>>, block, rec)
        ELSE IF fault = "get" THEN Answer(500, <<>>, block, rec)
        ELSE IF fault = "dbPut" THEN Answer(500, <<>>, block, rec)
        ELSE IF fault = "fileWrite" THEN Answer(500, <<>>, block, mf)
        ELSE Answer(200, <<id, value>>, WriteTag(block, tagName, value), mf)

\* the body shared by the two handlers: decode, validate, load, write the
\* file tag, update the tags in memory, persist, answer
setTag(name, tagName, valid, id, exists, rec, block, value, fault, t) ==
    LET mf == [rec EXCEPT !.tags = UpdateTags(rec.tags, name, value),
                          !.updatedAt = t]
    IN  IF fault = "decode" THEN Answer(400, <<>>, block, rec)
        ELSE IF value \notin valid THEN Answer(400, <<>>, block, rec)
        ELSE IF ~exists THEN Answer(404, <<>>, block, rec)
        ELSE IF fault = "get" THEN Answer(500, <<>>, block, rec)
        ELSE IF fault = "fileWrite" THEN Answer(500, <<>>, block, rec)
        ELSE IF fault = "dbPut"
             THEN Answer(500, <<>>, WriteTag(block, tagName, value), rec)
        ELSE Answer(200, <<id, value>>, WriteTag(block, tagName, value), mf)

\* a fault is drawn only for a request that gets as far as the call that
\* can suffer it; a body that does not decode carries no value
Reaches(valid, id, value, fault) ==
    \/ fault = "none"
    \/ fault = "decode" /\ value = ""
    \/ fault \in {"get", "fileWrite", "dbPut"} /\ value \in valid
                                               /\ id \in Songs

SetTagRequest(op, name, tagName, valid) ==
    /\ now < MaxClock
    /\ \E id \in Songs \cup {NoSong}, value \in RequestValues,
          fault \in Faults :
        LET exists == id \in Songs
            rec == IF exists THEN db[id] ELSE NewRecord
            block == IF exists THEN file[id] ELSE EmptyBlock
            out == setTag(name, tagName, valid, id, exists, rec, block,
                          value, fault, now + 1)
        IN  /\ Reaches(valid, id, value, fault)
            /\ file' = IF exists THEN [file EXCEPT ![id] = out.block]
                       ELSE file
            /\ db' = IF exists THEN [db EXCEPT ![id] = out.rec] ELSE db
            /\ now' = now + 1
            /\ req' = [op |-> op, id |-> id, value |-> value,
                       fault |-> fault]
            /\ tagStatus' = out.status
            /\ tagBody' = out.body
    /\ UNCHANGED <<batchVars, otherVars>>

\* PUT /song/{id}/energy
setEnergy == SetTagRequest("setEnergy", "energy", sENERGY, validEnergyValues)

\* PUT /song/{id}/mood
setMood == SetTagRequest("setMood", "mood", sMOOD, validMoodValues)

(* --------------------------- capability probes ------------------------- *)
\* the name under which a handler stores its tag in the record
TagNameOf(op) == IF op = "setEnergy" THEN "energy" ELSE "mood"

\* the file tag a handler writes
FileTagOf(op) == IF op = "setEnergy" THEN eEnergy ELSE eMood

\* the two handlers, each in its own goroutine of the HTTP server
Handlers == {"setEnergy", "setMood"}

NoHandler ==
    [pc |-> "idle", id |-> NoSong, value |-> "", mf |-> NewRecord,
     status |-> 0]

Answered(h, st) == [hs EXCEPT ![h].pc = "done", ![h].status = st]

handlerFrame ==
    UNCHANGED <<req, tagStatus, tagBody, batchVars, fetchVars, work,
                onceVars, libVars, audioVars, analyzeVars, genius, uiVars,
                regVars, lower, first>>

\* a request with a valid value arrives and the handler loads the record:
\* mf, err := ds.MediaFile(ctx).Get(id)
handlerGet(h) ==
    /\ hs[h].pc = "idle"
    /\ \E id \in Songs, ok \in BOOLEAN,
          value \in (IF h = "setEnergy" THEN validEnergyValues
                     ELSE validMoodValues) :
        hs' = IF ok
              THEN [hs EXCEPT ![h] = [pc |-> "loaded", id |-> id,
                                      value |-> value, mf |-> db[id],
                                      status |-> 0]]
              ELSE [hs EXCEPT ![h] = [pc |-> "done", id |-> id,
                                      value |-> value, mf |-> NewRecord,
                                      status |-> 500]]
    /\ UNCHANGED <<file, db, now>>
    /\ handlerFrame

\* taglib.WriteTag(fullPath, "ENERGY" or "MOOD", req.Value)
handlerWriteTag(h) ==
    /\ hs[h].pc = "loaded"
    /\ \E ok \in BOOLEAN :
        IF ok
        THEN /\ file' = [file EXCEPT ![hs[h].id] =
                            WriteTag(@, FileTagOf(h)[2], hs[h].value)]
             /\ hs' = [hs EXCEPT ![h].pc = "written"]
        ELSE /\ file' = file
             /\ hs' = Answered(h, 500)
    /\ UNCHANGED <<db, now>>
    /\ handlerFrame

\* the entry of mf.Tags is set or deleted, mf.UpdatedAt = time.Now(), and
\* ds.MediaFile(ctx).Put(mf) writes the record the handler holds
handlerPut(h) ==
    /\ hs[h].pc = "written"
    /\ now < MaxClock
    /\ now' = now + 1
    /\ \E ok \in BOOLEAN :
        IF ok
        THEN /\ db' = [db EXCEPT ![hs[h].id] =
                          [hs[h].mf EXCEPT
                              !.tags = UpdateTags(@, TagNameOf(h),
                                                  hs[h].value),
                              !.updatedAt = now + 1]]
             /\ hs' = Answered(h, 200)
        ELSE /\ db' = db
             /\ hs' = Answered(h, 500)
    /\ UNCHANGED file
    /\ handlerFrame

IdleHandlers == hs = [h \in Handlers |-> NoHandler]

Kinds == {"lyrics", "trackdata"}

\* geniusCmd / getAPIKey under sync.Once: the first call probes the
\* environment, every later call returns the memoized outcome
Probe(memo, envOk) ==
    IF memo = "unprobed"
    THEN IF envOk THEN "available" ELSE "unavailable"
    ELSE memo

(* ----------------------------- lyrics flow ----------------------------- *)
\* what the Genius script prints, trimmed
LyricsText == "la la"

\* what happens to the lookup command and to model.ToLyrics
GeniusOutcomes ==
    {"exit", "execError", "blank", "parseError", "emptyLyrics", "found"}

\* model.ToLyrics("xxx", text)
ToLyrics(lang, text) == [lang |-> lang, text |-> text]

\* json.Marshal of a LyricList, as the string stored in MediaFile.Lyrics
Marshal(list) ==
    IF list = <<>> THEN <<"[]">>
    ELSE <<"json", list[1].lang, list[1].text>>

Event(e, i, ok) == [ev |-> e, i |-> i, ok |-> ok]

\* a provider that reports a lookup command it could not run as an error
fromGeniusHardError(memo, named, lookup, saveOk, block, i) ==
    LET none == [list |-> <<>>, err |-> FALSE, block |-> block,
                 events |-> <<>>]
    IN  IF memo # "available" THEN none
        ELSE IF ~named THEN none
        ELSE IF lookup = "execError" THEN [none EXCEPT !.err = TRUE]
        ELSE IF lookup \in {"exit", "blank"} THEN none
        ELSE IF lookup = "parseError" THEN [none EXCEPT !.err = TRUE]
        ELSE IF lookup = "emptyLyrics" THEN none
        ELSE [list |-> <<ToLyrics("xxx", LyricsText)>>,
              err |-> FALSE,
              block |-> IF saveOk THEN WriteLyrics(block, sXXX, LyricsText)
                        ELSE block,
              events |-> <<Event("filewrite", i, saveOk)>>]

\* a provider that fails when the lyrics cannot be written into the file
fromGeniusStrict(memo, named, lookup, saveOk, block, i) ==
    LET none == [list |-> <<>>, err |-> FALSE, block |-> block,
                 events |-> <<>>]
    IN  IF memo # "available" THEN none
        ELSE IF ~named THEN none
        ELSE IF lookup \in {"exit", "execError", "blank"} THEN none
        ELSE IF lookup = "parseError" THEN [none EXCEPT !.err = TRUE]
        ELSE IF lookup = "emptyLyrics" THEN none
        ELSE [list |-> IF saveOk THEN <<ToLyrics("xxx", LyricsText)>>
                       ELSE <<>>,
              err |-> ~saveOk,
              block |-> IF saveOk THEN WriteLyrics(block, sXXX, LyricsText)
                        ELSE block,
              events |-> <<Event("filewrite", i, saveOk)>>]

\* lyrics.FetchFromGenius: the list, the error, the file after the
\* best-effort save, and the calls made
fromGenius(memo, named, lookup, saveOk, block, i) ==
    LET none == [list |-> <<>>, err |-> FALSE, block |-> block,
                 events |-> <<>>]
    IN  IF memo # "available" THEN none
        ELSE IF ~named THEN none
        ELSE IF lookup \in {"exit", "execError", "blank"} THEN none
        ELSE IF lookup = "parseError" THEN [none EXCEPT !.err = TRUE]
        ELSE IF lookup = "emptyLyrics" THEN none
        ELSE [list |-> <<ToLyrics("xxx", LyricsText)>>,
              err |-> FALSE,
              block |-> IF saveOk THEN WriteLyrics(block, sXXX, LyricsText)
                        ELSE block,
              events |-> <<Event("filewrite", i, saveOk)>>]

\* a skip test that knows only the language the pipeline itself writes
HasLyricsXXXOnly(tags) ==
    \E key \in DOMAIN tags : ToLower(key) = sLyricsPrefix \o sXXX

\* a skip test that accepts any key mentioning lyrics
HasLyricsAnywhere(tags) ==
    \E key \in DOMAIN tags :
        Contains(ToLower(key), <<"l","y","r","i","c","s">>)

\* the key loop of fetchLyricsForSongs
HasCorrectlyStoredLyrics(tags) ==
    \E key \in DOMAIN tags : HasPrefix(ToLower(key), sLyricsPrefix)

Bump(c, outcome) ==
    IF outcome = "fetched" THEN [c EXCEPT !.fetched = @ + 1]
    ELSE IF outcome = "failed" THEN [c EXCEPT !.failed = @ + 1]
    ELSE IF outcome = "skipped" THEN [c EXCEPT !.skipped = @ + 1]
    ELSE c

\* an iteration that passes over a file whose tags cannot be read
lyricsIterationSkipUnread(song, block, i, readOk, tags, g, putOk) ==
    LET read == <<Event("read", i, readOk)>>
        called == read \o <<Event("provider", i, ~g.err)>> \o g.events
        rec == [song.rec EXCEPT !.lyrics = Marshal(g.list)]
    IN  IF ~readOk \/ HasCorrectlyStoredLyrics(tags)
        THEN [outcome |-> "skipped", block |-> block, put |-> FALSE,
              rec |-> song.rec, events |-> read]
        ELSE IF g.err \/ Len(g.list) = 0
        THEN [outcome |-> "failed", block |-> g.block, put |-> FALSE,
              rec |-> song.rec, events |-> called]
        ELSE IF ~putOk
        THEN [outcome |-> "failed", block |-> g.block, put |-> FALSE,
              rec |-> rec,
              events |-> called \o <<Event("dbwrite", i, FALSE)>>]
        ELSE [outcome |-> "fetched", block |-> g.block, put |-> TRUE,
              rec |-> rec,
              events |-> called \o <<Event("dbwrite", i, TRUE)>>]

\* one iteration of the loop of fetchLyricsForSongs over songs[i], given
\* the tags read from the file and the answer g of the provider
lyricsIteration(song, block, i, readOk, tags, g, putOk) ==
    LET read == <<Event("read", i, readOk)>>
        skip == readOk /\ HasCorrectlyStoredLyrics(tags)
        called == read \o <<Event("provider", i, ~g.err)>> \o g.events
        rec == [song.rec EXCEPT !.lyrics = Marshal(g.list)]
    IN  IF skip
        THEN [outcome |-> "skipped", block |-> block, put |-> FALSE,
              rec |-> song.rec, events |-> read]
        ELSE IF g.err \/ Len(g.list) = 0
        THEN [outcome |-> "failed", block |-> g.block, put |-> FALSE,
              rec |-> song.rec, events |-> called]
        ELSE IF ~putOk
        THEN [outcome |-> "failed", block |-> g.block, put |-> FALSE,
              rec |-> rec,
              events |-> called \o <<Event("dbwrite", i, FALSE)>>]
        ELSE [outcome |-> "fetched", block |-> g.block, put |-> TRUE,
              rec |-> rec,
              events |-> called \o <<Event("dbwrite", i, TRUE)>>]

(* --------------------------- track-data flow --------------------------- *)
\* what trackanalysis.FetchTrackData returns to the batch
FetchOutcomes == {"ok", "ErrTrackNotFound", "ErrRateLimited", "other"}

\* the TrackData of a successful fetch
TrackDataValues == {[EnergyVal |-> 80, Happiness |-> 55,
                     Instrumentalness |-> 0]}

\* writeTrackDataTags when the first nOk WriteTag calls succeed
writeTrackDataTags(block, data, nOk, i) ==
    LET b1 == WriteTag(block, sENERGYVAL, ToString(data.EnergyVal))
        b2 == WriteTag(b1, sHAPPINESS, ToString(data.Happiness))
        b3 == WriteTag(b2, sINSTRUMENTALNESS,
                       ToString(data.Instrumentalness))
    IN  [err |-> nOk < 3,
         block |-> IF nOk = 0 THEN block
                   ELSE IF nOk = 1 THEN b1
                   ELSE IF nOk = 2 THEN b2 ELSE b3,
         events |-> [j \in 1..(IF nOk < 3 THEN nOk + 1 ELSE 3) |->
                        Event("filewrite", i, j <= nOk)]]

\* the key loop of processSong
HasTrackData(tags) ==
    \E key \in DOMAIN tags :
        ToLower(key) \in {sEnergyval, sHappiness, sInstrumentalness}

Result(f, x, s) == [fetched |-> f, failed |-> x, skipped |-> s]

\* a processSong that reports nothing when the tags cannot be written
processSongSilent(block, i, readOk, tags, fetch, w) ==
    LET read == <<Event("read", i, readOk)>>
        called == read \o <<Event("provider", i, fetch = "ok")>>
    IN  IF readOk /\ HasTrackData(tags)
        THEN [result |-> Result(FALSE, FALSE, TRUE), block |-> block,
              events |-> read]
        ELSE IF fetch # "ok"
        THEN [result |-> Result(FALSE, TRUE, FALSE), block |-> block,
              events |-> called]
        ELSE IF w.err
        THEN [result |-> Result(FALSE, FALSE, FALSE), block |-> w.block,
              events |-> called \o w.events]
        ELSE [result |-> Result(TRUE, FALSE, FALSE), block |-> w.block,
              events |-> called \o w.events]

\* processSong over songs[i], given the tags read from the file and the
\* result w of writeTrackDataTags
processSong(block, i, readOk, tags, fetch, w) ==
    LET read == <<Event("read", i, readOk)>>
        called == read \o <<Event("provider", i, fetch = "ok")>>
    IN  IF readOk /\ HasTrackData(tags)
        THEN [result |-> Result(FALSE, FALSE, TRUE), block |-> block,
              events |-> read]
        ELSE IF fetch # "ok"
        THEN [result |-> Result(FALSE, TRUE, FALSE), block |-> block,
              events |-> called]
        ELSE IF w.err
        THEN [result |-> Result(FALSE, TRUE, FALSE), block |-> w.block,
              events |-> called \o w.events]
        ELSE [result |-> Result(TRUE, FALSE, FALSE), block |-> w.block,
              events |-> called \o w.events]

\* the if / else-if chain of fetchTrackDataForSongs
OutcomeOf(result) ==
    IF result.fetched THEN "fetched"
    ELSE IF result.failed THEN "failed"
    ELSE IF result.skipped THEN "skipped"
    ELSE "none"

(* --------------------------- batch handlers ---------------------------- *)
ZeroCounters == [total |-> 0, fetched |-> 0, failed |-> 0, skipped |-> 0]

\* member lists a resource can have; an album has no file twice
MemberLists == UNION {[1..n -> Songs] : n \in 0..MaxBatch}
AlbumLists ==
    {m \in MemberLists : \A a, b \in 1..Len(m) : m[a] = m[b] => a = b}

\* what the data store answers for the resource id
Lookups(rt) ==
    {<<"ErrNotFound">>, <<"error">>} \cup
    {<<"ok", m>> : m \in IF rt = "album" THEN AlbumLists ELSE MemberLists}

\* a handler that starts the loop whatever the provider reports
PreflightNoGate(memo, lookup) ==
    IF lookup[1] = "ErrNotFound" THEN 404
    ELSE IF lookup[1] = "error" THEN 500
    ELSE IF Len(lookup[2]) = 0 THEN 404
    ELSE 0

\* the early returns of the four handlers: the status answered before the
\* loop, 0 when the handler goes on to fetch...ForSongs
Preflight(memo, lookup) ==
    IF memo # "available" THEN 503
    ELSE IF lookup[1] = "ErrNotFound" THEN 404
    ELSE IF lookup[1] = "error" THEN 500
    ELSE IF Len(lookup[2]) = 0 THEN 404
    ELSE 0

\* the handler up to the call of fetch...ForSongs
StartBatch(k, rt) ==
    /\ pc = "idle"
    /\ \E envOk \in BOOLEAN, lookup \in Lookups(rt) :
        LET memo == Probe(probe[k], envOk)
            code == Preflight(memo, lookup)
            members == IF lookup[1] = "ok" THEN lookup[2] ELSE <<>>
        IN  /\ probe' = [probe EXCEPT ![k] = memo]
            /\ status' = code
            /\ pc' = IF code = 0 THEN "loop" ELSE "done"
            /\ found' = IF memo # "available" THEN "unasked"
                        ELSE IF lookup[1] # "ok" THEN lookup[1]
                        ELSE IF Len(members) = 0 THEN "empty" ELSE "ok"
            /\ songs' = IF code = 0
                        THEN [i \in 1..Len(members) |->
                                [id |-> members[i], rec |-> db[members[i]]]]
                        ELSE <<>>
            /\ counters' = IF code = 0
                           THEN [ZeroCounters EXCEPT !.total = Len(members)]
                           ELSE ZeroCounters
    /\ kind' = k
    /\ idx' = 0
    /\ resp' = <<>>
    /\ calls' = <<>>
    /\ outcomes' = <<>>
    /\ UNCHANGED <<tagVars, otherVars>>

\* POST /album/{id}/fetch-lyrics
fetchAlbumLyrics == StartBatch("lyrics", "album")
\* POST /playlist/{id}/fetch-lyrics
fetchPlaylistLyrics == StartBatch("lyrics", "playlist")
\* POST /album/{id}/fetch-trackdata
fetchAlbumTrackData == StartBatch("trackdata", "album")
\* POST /playlist/{id}/fetch-trackdata
fetchPlaylistTrackData == StartBatch("trackdata", "playlist")

\* one iteration of the loop of fetchLyricsForSongs; the loop variable is a
\* copy, so the member list keeps the records as they were loaded
fetchLyricsForSongs ==
    /\ pc = "loop"
    /\ kind = "lyrics"
    /\ idx < Len(songs)
    /\ \E readOk \in BOOLEAN, named \in BOOLEAN, lookup \in GeniusOutcomes,
          saveOk \in BOOLEAN, putOk \in BOOLEAN :
        \E r \in {lyricsIteration(
                      songs[idx + 1], file[songs[idx + 1].id], idx + 1,
                      readOk, ReadTags(file[songs[idx + 1].id]),
                      fromGenius(probe["lyrics"], named, lookup, saveOk,
                                 file[songs[idx + 1].id], idx + 1),
                      putOk)} :
        LET i == idx + 1
            id == songs[i].id
        IN  /\ file' = [file EXCEPT ![id] = r.block]
            /\ db' = IF r.put THEN [db EXCEPT ![id] = r.rec] ELSE db
            /\ counters' = Bump(counters, r.outcome)
            /\ calls' = r.events
            /\ outcomes' = Append(outcomes, r.outcome)
            /\ idx' = i
    /\ UNCHANGED <<now, req, tagStatus, tagBody, probe, pc, kind, found,
                   songs, status, resp, otherVars>>

\* one iteration of the loop of fetchTrackDataForSongs
fetchTrackDataForSongs ==
    /\ pc = "loop"
    /\ kind = "trackdata"
    /\ idx < Len(songs)
    /\ \E readOk \in BOOLEAN, fetch \in FetchOutcomes,
          data \in TrackDataValues, nOk \in 0..3 :
        \E r \in {processSong(
                      file[songs[idx + 1].id], idx + 1, readOk,
                      ReadTags(file[songs[idx + 1].id]), fetch,
                      writeTrackDataTags(file[songs[idx + 1].id], data, nOk,
                                         idx + 1))} :
        LET i == idx + 1
            id == songs[i].id
        IN  /\ file' = [file EXCEPT ![id] = r.block]
            /\ counters' = Bump(counters, OutcomeOf(r.result))
            /\ calls' = r.events
            /\ outcomes' = Append(outcomes, OutcomeOf(r.result))
            /\ idx' = i
    /\ UNCHANGED <<db, songs, now, req, tagStatus, tagBody, probe, pc, kind,
                   found, status, resp, otherVars>>

\* the same batch request made once more after its response, nothing
\* else having happened in between: the probe is memoized, the lookup
\* answers the same member files, and the loop starts over
Repeat(k) ==
    /\ pc = "done"
    /\ status = 200
    /\ kind = k
    /\ first = <<>>
    /\ first' = <<[ids |-> [i \in DOMAIN songs |-> songs[i].id],
                   outcomes |-> outcomes]>>
    /\ songs' = [i \in DOMAIN songs |->
                    [id |-> songs[i].id, rec |-> db[songs[i].id]]]
    /\ counters' = [ZeroCounters EXCEPT !.total = Len(songs)]
    /\ pc' = "loop"
    /\ status' = 0
    /\ idx' = 0
    /\ resp' = <<>>
    /\ calls' = <<>>
    /\ outcomes' = <<>>
    /\ UNCHANGED <<tagVars, probe, kind, found, fetchVars, work, onceVars,
                   libVars, audioVars, analyzeVars, genius, uiVars, regVars,
                   lower, hs>>

\* a second lyrics request over the same album or playlist
repeatLyrics == Repeat("lyrics")

\* a second track-data request over the same album or playlist
repeatTrackData == Repeat("trackdata")

\* what FetchFromGenius was called with and what it returned
Asked(ran, lookup, g) ==
    [called |-> TRUE, lookup |-> IF ran THEN lookup ELSE "notRun",
     list |-> g.list, err |-> g.err]
NoAsk == [called |-> FALSE, lookup |-> "notRun", list |-> <<>>,
          err |-> FALSE]

\* the same iteration of fetchLyricsForSongs, keeping the call of
\* FetchFromGenius it makes
fetchLyricsIteration ==
    /\ pc = "loop"
    /\ kind = "lyrics"
    /\ idx < Len(songs)
    /\ \E readOk \in BOOLEAN, named \in BOOLEAN, lookup \in GeniusOutcomes,
          saveOk \in BOOLEAN, putOk \in BOOLEAN :
        \E g \in {fromGenius(probe["lyrics"], named, lookup, saveOk,
                            file[songs[idx + 1].id], idx + 1)} :
        \E r \in {lyricsIteration(
                      songs[idx + 1], file[songs[idx + 1].id], idx + 1,
                      readOk, ReadTags(file[songs[idx + 1].id]), g, putOk)} :
        LET i == idx + 1
            id == songs[i].id
        IN  /\ file' = [file EXCEPT ![id] = r.block]
            /\ db' = IF r.put THEN [db EXCEPT ![id] = r.rec] ELSE db
            /\ counters' = Bump(counters, r.outcome)
            /\ calls' = r.events
            /\ outcomes' = Append(outcomes, r.outcome)
            /\ idx' = i
            /\ genius' = IF r.outcome = "skipped" THEN NoAsk
                          ELSE Asked(probe["lyrics"] = "available" /\ named,
                                     lookup, g)
    /\ UNCHANGED <<now, req, tagStatus, tagBody, probe, pc, kind, found,
                   songs, status, resp, fetchVars, work, onceVars, libVars,
                   audioVars, analyzeVars, uiVars, regVars, lastVars>>

\* the request's context is cancelled while the loop runs (the client
\* went away): ctx := r.Context()
cancelBatch ==
    /\ pc = "loop"
    /\ ~ctxDone
    /\ ctxDone' = TRUE
    /\ UNCHANGED <<tagVars, batchVars, fpc, attempt, requests, responses,
                   waits, remaining, elapsed, fret, work, onceVars, libVars,
                   audioVars, laterVars>>

\* a provider that answers whatever has become of the context
ctxUnchecked(done, answered) == TRUE

\* what a provider called with the loop's context can do: under a
\* cancelled context exec.CommandContext does not run the script to its
\* end and client.Do returns the context's error, so no answer comes back
ctxAllows(done, answered) == ~(done /\ answered)

\* one iteration of the lyrics loop under the request's context
lyricsUnderCtx ==
    /\ fetchLyricsIteration
    /\ ctxAllows(ctxDone,
                 genius'.called /\ genius'.lookup \in
                     {"blank", "parseError", "emptyLyrics", "found"})

\* one iteration of the track-data loop under the request's context
trackDataUnderCtx ==
    /\ fetchTrackDataForSongs
    /\ ctxAllows(ctxDone,
                 \E j \in DOMAIN calls' :
                     calls'[j].ev = "provider" /\ calls'[j].ok)

\* a loop that gives up at the first failed file
writeResponseOnFailure ==
    /\ pc = "loop"
    /\ \/ idx = Len(songs)
       \/ idx > 0 /\ outcomes[idx] = "failed"
    /\ pc' = "done"
    /\ status' = 200
    /\ resp' = <<counters>>
    /\ UNCHANGED <<file, db, now, req, tagStatus, tagBody, probe, kind,
                   found, songs, idx, counters, calls, outcomes, otherVars>>

\* the end of the loop: the counters are returned and written as JSON
writeResponse ==
    /\ pc = "loop"
    /\ idx = Len(songs)
    /\ pc' = "done"
    /\ status' = 200
    /\ resp' = <<counters>>
    /\ UNCHANGED <<file, db, now, req, tagStatus, tagBody, probe, kind,
                   found, songs, idx, counters, calls, outcomes, otherVars>>

(* -------------------- trackanalysis.FetchTrackData --------------------- *)
maxRetries == 6
StatusOK == 200
StatusNotFound == 404
StatusTooManyRequests == 429

\* status codes the upstream may answer
Statuses == {200, 204, 404, 429, 500, 503}

\* time.Duration(1<<attempt) * time.Second, in seconds
backoff(k) == 2 ^ k

\* what a call returns: the kind of result and the status code it carries
Ret(k, code) == [kind |-> k, code |-> code]
NoRet == Ret("none", 0)

\* a loop that keeps retrying on the last attempt
afterResponseNoCeiling(st, k) ==
    IF st # StatusTooManyRequests THEN "break" ELSE "retry"

\* a loop that also retries when the upstream answers 503
afterResponseRetryUnavailable(st, k) ==
    IF st \notin {StatusTooManyRequests, 503} THEN "break"
    ELSE IF k = maxRetries - 1 THEN "ErrRateLimited"
    ELSE "retry"

\* what the retry loop does with a response: leave the loop, give up, or
\* go round again
afterResponse(st, k) ==
    IF st # StatusTooManyRequests THEN "break"
    ELSE IF k = maxRetries - 1 THEN "ErrRateLimited"
    ELSE "retry"

\* the code after the loop: the final status and the decoding of the body
finalResult(st, decodeOk) ==
    IF st = StatusNotFound THEN Ret("ErrTrackNotFound", 0)
    ELSE IF st # StatusOK THEN Ret("status", st)
    ELSE IF ~decodeOk THEN Ret("decode", 0)
    ELSE Ret("ok", 0)

\* a wait that only the timer ends
selectTimerOnly(done, left) == IF left = 0 THEN {"timer"} ELSE {}

\* the cases of the select statement that are ready
selectReady(done, left) ==
    (IF done THEN {"ctx"} ELSE {}) \cup (IF left = 0 THEN {"timer"} ELSE {})

fetchFrame ==
    UNCHANGED <<tagVars, batchVars, work, onceVars, libVars, audioVars,
                laterVars>>

\* entry of FetchTrackData up to the retry loop
fetchCall ==
    /\ fpc = "call"
    /\ \E keyOk \in BOOLEAN, named \in BOOLEAN :
        IF ~keyOk
        THEN fpc' = "returned" /\ fret' = Ret("ErrTrackAnalysisNotAvailable", 0)
        ELSE IF ~named
        THEN fpc' = "returned" /\ fret' = Ret("args", 0)
        ELSE fpc' = "do" /\ fret' = fret
    /\ UNCHANGED <<attempt, requests, responses, waits, remaining, elapsed,
                   ctxDone>>
    /\ fetchFrame

\* client.Do and what follows it up to the next blocking point: the return
\* of the call or the select of the next iteration
clientDo ==
    /\ fpc = "do"
    /\ requests' = requests + 1
    /\ \E out \in {<<"error", 0>>} \cup
                  (IF ctxDone THEN {} ELSE {<<"response", st>> : st \in Statuses}),
          decodeOk \in BOOLEAN :
        IF out[1] = "error"
        THEN /\ decodeOk
             /\ fpc' = "returned"
             /\ fret' = Ret("request", 0)
             /\ UNCHANGED <<attempt, responses, waits, remaining>>
        ELSE \E todo \in {afterResponse(out[2], attempt)} :
             /\ responses' = Append(responses, out[2])
             /\ IF todo = "retry" /\ attempt + 1 < maxRetries
                THEN /\ decodeOk
                     /\ attempt' = attempt + 1
                     /\ fpc' = "wait"
                     /\ remaining' = backoff(attempt + 1)
                     /\ waits' = Append(waits, backoff(attempt + 1))
                     /\ fret' = fret
                ELSE /\ out[2] = StatusOK \/ decodeOk
                     /\ attempt' = IF todo = "retry" THEN attempt + 1
                                   ELSE attempt
                     /\ fpc' = "returned"
                     /\ fret' = IF todo = "ErrRateLimited"
                                THEN Ret("ErrRateLimited", 0)
                                ELSE finalResult(out[2], decodeOk)
                     /\ UNCHANGED <<waits, remaining>>
    /\ UNCHANGED <<elapsed, ctxDone>>
    /\ fetchFrame

\* a second of the backoff passes while the call is blocked in the select
Tick ==
    /\ fpc = "wait"
    /\ selectReady(ctxDone, remaining) = {}
    /\ remaining' = remaining - 1
    /\ elapsed' = elapsed + 1
    /\ UNCHANGED <<fpc, attempt, requests, responses, waits, ctxDone, fret>>
    /\ fetchFrame

\* case <-time.After(backoff): the request is made again
timerFires ==
    /\ fpc = "wait"
    /\ "timer" \in selectReady(ctxDone, remaining)
    /\ fpc' = "do"
    /\ UNCHANGED <<attempt, requests, responses, waits, remaining, elapsed,
                   ctxDone, fret>>
    /\ fetchFrame

\* case <-ctx.Done(): return nil, ctx.Err()
ctxIsDone ==
    /\ fpc = "wait"
    /\ "ctx" \in selectReady(ctxDone, remaining)
    /\ fpc' = "returned"
    /\ fret' = Ret("ctx", 0)
    /\ UNCHANGED <<attempt, requests, responses, waits, remaining, elapsed,
                   ctxDone>>
    /\ fetchFrame

\* the caller cancels the context of a call in progress
Cancel ==
    /\ fpc \in {"do", "wait"}
    /\ ~ctxDone
    /\ ctxDone' = TRUE
    /\ UNCHANGED <<fpc, attempt, requests, responses, waits, remaining,
                   elapsed, fret>>
    /\ fetchFrame

\* no call of FetchTrackData in progress
IdleFetch ==
    /\ fpc = "idle"
    /\ attempt = 0
    /\ requests = 0
    /\ responses = <<>>
    /\ waits = <<>>
    /\ remaining = 0
    /\ elapsed = 0
    /\ ctxDone = FALSE
    /\ fret = NoRet

(* ------------- the track-data loop, one blocking call at a time -------- *)
\* what processSong makes of the error of FetchTrackData
asFetchOutcome(ret) ==
    IF ret.kind \in {"ok", "ErrTrackNotFound", "ErrRateLimited"} THEN ret.kind
    ELSE "other"

Body(pos, readOk, k) == [pos |-> pos, readOk |-> readOk, attempt |-> k]

\* a loop that moves on to the next file while the previous one waits out
\* a backoff
mayStartDuringWait(b) == IF Len(b) = 0 THEN TRUE ELSE b[Len(b)].pos \in {"wait", "done"}

\* the for statement calls processSong and goes round again with its
\* result: the next call is made when the previous one has returned
mayStart(b) == IF Len(b) = 0 THEN TRUE ELSE b[Len(b)].pos = "done"

seqFrame ==
    UNCHANGED <<db, now, req, tagStatus, tagBody, probe, pc, kind, found,
                songs, status, resp, fetchVars, onceVars, libVars, audioVars,
                laterVars>>

\* a call that has returned: its locals are gone
Returned == Body("done", TRUE, 0)

\* processSong returns r for songs[i]; the loop counts it
processSongReturns(i, r, b) ==
    /\ file' = [file EXCEPT ![songs[i].id] = r.block]
    /\ counters' = Bump(counters, OutcomeOf(r.result))
    /\ calls' = r.events
    /\ outcomes' = Append(outcomes, OutcomeOf(r.result))
    /\ idx' = idx + 1
    /\ work' = [b EXCEPT ![i] = Returned]
    /\ seqFrame

\* processSong goes on to a blocking call for songs[i]
processSongBlocks(b) ==
    /\ work' = b
    /\ UNCHANGED <<file, counters, calls, outcomes, idx>>
    /\ seqFrame

\* processSong(file, i, ...) with the writes of a full TrackData
processSongWith(i, readOk, fetch, data, nOk) ==
    processSong(file[songs[i].id], i, readOk, ReadTags(file[songs[i].id]),
                fetch,
                writeTrackDataTags(file[songs[i].id], data, nOk, i))

\* the loop calls processSong for the next file: the tags are read; the
\* file is skipped, or FetchTrackData is called and sends its first
\* request (or refuses a song without artist or title)
processSongStart ==
    /\ pc = "loop"
    /\ kind = "trackdata"
    /\ Len(work) < Len(songs)
    /\ mayStart(work)
    /\ \E readOk \in BOOLEAN, named \in BOOLEAN, data \in TrackDataValues :
        LET i == Len(work) + 1
            skip == readOk /\ HasTrackData(ReadTags(file[songs[i].id]))
        IN  IF skip \/ ~named
            THEN /\ skip => named
                 /\ processSongReturns(
                        i, processSongWith(i, readOk, "other", data, 0),
                        Append(work, Body("read", readOk, 0)))
            ELSE processSongBlocks(Append(work, Body("fetch", readOk, 0)))

\* client.Do returns for the request in flight: the call fails, retries
\* after a wait, or goes on to write the tags
fetchResponse ==
    /\ pc = "loop"
    /\ \E i \in 1..Len(work) :
        /\ work[i].pos = "fetch"
        /\ \E out \in {<<"error", 0>>} \cup
                      {<<"response", st>> : st \in Statuses},
              decodeOk \in BOOLEAN, data \in TrackDataValues :
            LET todo == IF out[1] = "error" THEN "error"
                        ELSE afterResponse(out[2], work[i].attempt)
                ret == IF todo = "error" THEN Ret("request", 0)
                       ELSE IF todo = "ErrRateLimited"
                       THEN Ret("ErrRateLimited", 0)
                       ELSE finalResult(out[2], decodeOk)
            IN  /\ (out[1] = "response" /\ out[2] = StatusOK) \/ decodeOk
                /\ IF todo = "retry" /\ work[i].attempt + 1 < maxRetries
                   THEN processSongBlocks(
                            [work EXCEPT ![i].pos = "wait",
                                         ![i].attempt = @ + 1])
                   ELSE IF ret.kind = "ok"
                   THEN processSongBlocks([work EXCEPT ![i].pos = "write"])
                   ELSE processSongReturns(
                            i,
                            processSongWith(i, work[i].readOk,
                                            asFetchOutcome(ret), data, 0),
                            work)

\* the backoff is over: the request is sent again
backoffOver ==
    /\ pc = "loop"
    /\ \E i \in 1..Len(work) :
        /\ work[i].pos = "wait"
        /\ processSongBlocks([work EXCEPT ![i].pos = "fetch"])

\* writeTrackDataTags, and the return of processSong
writeTags ==
    /\ pc = "loop"
    /\ \E i \in 1..Len(work) :
        /\ work[i].pos = "write"
        /\ \E data \in TrackDataValues, nOk \in 0..3 :
            processSongReturns(
                i, processSongWith(i, work[i].readOk, "ok", data, nOk), work)

(* ---------------------- one-time capability probes --------------------- *)
Callers == 1..NumCallers

\* essentiaCmd, geniusCmd, getAPIKey
Targets == {"essentia", "genius", "apikey"}

\* what a probe looks for: the extractor binary, the environment variable
\* (token or key), a python interpreter, the python module, the script
Relevant(t) ==
    IF t = "essentia" THEN {"cli", "python", "module", "script"}
    ELSE IF t = "genius" THEN {"secret", "python", "module", "script"}
    ELSE {"secret"}

\* the function passed to essentiaOnce.Do
essentiaProbe(e) ==
    IF "cli" \in e THEN "cli"
    ELSE IF "python" \notin e THEN "noPython"
    ELSE IF "module" \notin e THEN "noModule"
    ELSE IF "script" \in e THEN "script"
    ELSE "noScript"

\* the function passed to geniusOnce.Do
geniusProbe(e) ==
    IF "secret" \notin e THEN "noToken"
    ELSE IF "python" \notin e THEN "noPython"
    ELSE IF "module" \notin e THEN "noModule"
    ELSE IF "script" \in e THEN "script"
    ELSE "noScript"

\* the function passed to apiKeyOnce.Do
apiKeyProbe(e) == IF "secret" \in e THEN "key" ELSE "noKey"

probeBody(t, e) ==
    IF t = "essentia" THEN essentiaProbe(e)
    ELSE IF t = "genius" THEN geniusProbe(e)
    ELSE apiKeyProbe(e)

\* a guard that tests the done flag without taking the lock
onceEnterNoLock(done, holder) == IF done THEN "skip" ELSE "run"

\* sync.Once.Do past its fast path: wait for the lock, then skip the
\* function if it was run, run it otherwise
onceEnter(done, holder) ==
    IF holder # {} THEN "wait"
    ELSE IF done THEN "skip"
    ELSE "run"

onceFrame ==
    UNCHANGED <<tagVars, batchVars, fetchVars, work, libVars, audioVars,
                laterVars>>

\* a goroutine calls the probe function
callProbe(c) ==
    /\ cpc[c] = "idle"
    /\ cpc' = [cpc EXCEPT ![c] = "called"]
    /\ UNCHANGED <<target, env, once, cached, seen, runs>>
    /\ onceFrame

\* Once.Do: the done flag is tested first
onceDo(c) ==
    /\ cpc[c] = "called"
    /\ cpc' = [cpc EXCEPT ![c] = IF once.done THEN "read" ELSE "lock"]
    /\ UNCHANGED <<target, env, once, cached, seen, runs>>
    /\ onceFrame

\* Once.Do, slow path: the lock is taken and the flag tested again
onceDoSlow(c) ==
    /\ cpc[c] = "lock"
    /\ \E todo \in {onceEnter(once.done, once.holder)} :
        /\ todo # "wait"
        /\ IF todo = "skip"
           THEN /\ cpc' = [cpc EXCEPT ![c] = "read"]
                /\ UNCHANGED <<once, runs>>
           ELSE /\ cpc' = [cpc EXCEPT ![c] = "body"]
                /\ once' = [once EXCEPT !.holder = @ \cup {c}]
                /\ runs' = runs + 1
    /\ UNCHANGED <<target, env, cached, seen>>
    /\ onceFrame

\* the probe body ends: the package variables are assigned, the flag is
\* set, the lock is released
probeReturns(c) ==
    /\ cpc[c] = "body"
    /\ cached' = probeBody(target, env)
    /\ once' = [done |-> TRUE, holder |-> once.holder \ {c}]
    /\ cpc' = [cpc EXCEPT ![c] = "read"]
    /\ UNCHANGED <<target, env, seen, runs>>
    /\ onceFrame

\* the probe function returns the package variables
readCached(c) ==
    /\ cpc[c] = "read"
    /\ seen' = [seen EXCEPT ![c] = cached]
    /\ cpc' = [cpc EXCEPT ![c] = "idle"]
    /\ UNCHANGED <<target, env, once, cached, runs>>
    /\ onceFrame

\* something the probe looks for appears or disappears
EnvChange ==
    /\ target \in Targets
    /\ \E f \in Relevant(target) :
        env' = IF f \in env THEN env \ {f} ELSE env \cup {f}
    /\ UNCHANGED <<target, once, cached, cpc, seen, runs>>
    /\ onceFrame

\* no probe function called yet
IdleCallers ==
    /\ once = [done |-> FALSE, holder |-> {}]
    /\ cached = "zero"
    /\ cpc = [c \in Callers |-> "idle"]
    /\ seen = [c \in Callers |-> "none"]
    /\ runs = 0

IdleOnce == target = "none" /\ env = {} /\ IdleCallers

(* ------------------- taglib.Read and taglib.WriteTag ------------------- *)
\* what can go wrong below the call boundary: a panic raised in Go code
\* while the call runs (an exported callback, a fault in Go code that
\* SetPanicOnFault turns into a panic), or a signal raised while the thread
\* executes the C library, which the Go runtime cannot turn into a panic
FaultKinds == {"goPanic", "cSignal"}

\* results of C.taglib_read and of C.taglib_write_tag
ReadEvents == {"ok", "parse", "audioProps"}
WriteEvents == {"ok", "parse", "readonly", "save", "unknown"}

\* a newMap that hands out the counter's value without advancing it
newMapNoAdd(next) == IF next = 0 THEN 1 ELSE next

\* newMap: id := mapsNextID.Add(1); the 32-bit counter starts at 0 and is
\* far from wrapping within MaxLibCalls calls
newMap(next) == next + 1

\* the error a call returns for what happened in the library
errorOf(ev) ==
    IF ev = "ok" THEN "nil"
    ELSE IF ev = "goPanic" THEN "recovered from panic"
    ELSE ev

Outcome(op, ev, up, err, tags, registry) ==
    [op |-> op, event |-> ev, alive |-> up, err |-> err, tags |-> tags,
     registry |-> registry, native |-> 1]

\* taglib.Read: the map is registered, the library is called once, the
\* deferred release and recover run unless the process is gone
Read(block, registry, id, ev) ==
    IF ev = "cSignal"
    THEN Outcome("Read", ev, FALSE, "none", <<>>, registry \cup {id})
    ELSE Outcome("Read", ev, TRUE, errorOf(ev),
                 IF ev = "ok" THEN ReadTags(block) ELSE <<>>,
                 (registry \cup {id}) \ {id})

\* taglib.WriteTag: the library is called once, the deferred recover runs
\* unless the process is gone
writeTag(registry, ev) ==
    IF ev = "cSignal"
    THEN Outcome("WriteTag", ev, FALSE, "none", <<>>, registry)
    ELSE Outcome("WriteTag", ev, TRUE, errorOf(ev), <<>>, registry)

libFrame ==
    UNCHANGED <<db, now, req, tagStatus, tagBody, batchVars, fetchVars, work,
                onceVars, audioVars,
                laterVars>>

\* a call of taglib.Read on the file of song s
taglibRead ==
    /\ alive
    /\ libCalls < MaxLibCalls
    /\ \E s \in Songs, ev \in ReadEvents \cup FaultKinds :
        \E r \in {Read(file[s], allMaps, newMap(mapsNextID), ev)} :
            /\ alive' = r.alive
            /\ allMaps' = r.registry
            /\ lastCall' = r
    /\ mapsNextID' = newMap(mapsNextID)
    /\ libCalls' = libCalls + 1
    /\ UNCHANGED file
    /\ libFrame

\* a call of taglib.WriteTag on the file of song s; a call that faults may
\* or may not have saved the file
taglibWriteTag ==
    /\ alive
    /\ libCalls < MaxLibCalls
    /\ \E s \in Songs, name \in {sENERGY, sMOOD}, value \in {"", "high"},
          ev \in WriteEvents \cup FaultKinds, saved \in BOOLEAN :
        \E r \in {writeTag(allMaps, ev)} :
            /\ saved = (ev = "ok") \/ ev \in FaultKinds
            /\ alive' = r.alive
            /\ allMaps' = r.registry
            /\ lastCall' = r
            /\ file' = IF saved
                       THEN [file EXCEPT ![s] = WriteTag(file[s], name, value)]
                       ELSE file
    /\ libCalls' = libCalls + 1
    /\ UNCHANGED mapsNextID
    /\ libFrame

NoCall == Outcome("none", "ok", TRUE, "nil", <<>>, {})

\* the process at its start: no call of the tag library made
IdleLib ==
    /\ alive = TRUE
    /\ allMaps = {}
    /\ mapsNextID = 0
    /\ libCalls = 0
    /\ lastCall = NoCall

(* --------------------------- audio.classifyEnergy ---------------------- *)
\* AudioMetrics in fixed point: BPM in tenths of a beat per minute, the
\* three 0-1 measures in hundredths, so that a threshold such as 0.7 is 70
\* and 130 is 1300
Metrics(bpm, beats, loud, dance) ==
    [BPM |-> bpm, BeatsLoudness |-> beats, AverageLoudness |-> loud,
     Danceability |-> dance]

ScoreBreakdown(b, s, l, d) ==
    [BPMScore |-> b, BeatsScore |-> s, LoudnessScore |-> l,
     DanceabilityScore |-> d, TotalScore |-> b + s + l + d]

\* a labelling that asks a total of 3 for medium
energyOfThree(total) ==
    IF total >= 5 THEN "high" ELSE IF total >= 3 THEN "medium" ELSE "low"

\* the label of a total score
energyOf(total) ==
    IF total >= 5 THEN "high" ELSE IF total >= 2 THEN "medium" ELSE "low"

\* a classifier whose BPM thresholds are exclusive
classifyEnergyExclusive(m) ==
    LET b == IF m.BPM > 1300 THEN 3
             ELSE IF m.BPM > 1100 THEN 2
             ELSE IF m.BPM > 850 THEN 1 ELSE 0
        s == IF m.BeatsLoudness >= 70 THEN 2
             ELSE IF m.BeatsLoudness >= 40 THEN 1 ELSE 0
        l == IF m.AverageLoudness >= 80 THEN 1 ELSE 0
        d == IF m.Danceability >= 70 THEN 1 ELSE 0
    IN  [energy |-> energyOf(b + s + l + d),
         breakdown |-> ScoreBreakdown(b, s, l, d)]

\* a classifier that scores no beat loudness above 1.0
classifyEnergyClipped(m) ==
    LET b == IF m.BPM >= 1300 THEN 3
             ELSE IF m.BPM >= 1100 THEN 2
             ELSE IF m.BPM >= 850 THEN 1 ELSE 0
        s == IF m.BeatsLoudness > 100 THEN 0
             ELSE IF m.BeatsLoudness >= 70 THEN 2
             ELSE IF m.BeatsLoudness >= 40 THEN 1 ELSE 0
        l == IF m.AverageLoudness >= 80 THEN 1 ELSE 0
        d == IF m.Danceability >= 70 THEN 1 ELSE 0
    IN  [energy |-> energyOf(b + s + l + d),
         breakdown |-> ScoreBreakdown(b, s, l, d)]

\* classifyEnergy: the label and the breakdown
classifyEnergy(m) ==
    LET b == IF m.BPM >= 1300 THEN 3
             ELSE IF m.BPM >= 1100 THEN 2
             ELSE IF m.BPM >= 850 THEN 1 ELSE 0
        s == IF m.BeatsLoudness >= 70 THEN 2
             ELSE IF m.BeatsLoudness >= 40 THEN 1 ELSE 0
        l == IF m.AverageLoudness >= 80 THEN 1 ELSE 0
        d == IF m.Danceability >= 70 THEN 1 ELSE 0
    IN  [energy |-> energyOf(b + s + l + d),
         breakdown |-> ScoreBreakdown(b, s, l, d)]

\* metrics around every threshold, below zero and above one included
BPMValues == {-10, 0, 849, 850, 900, 1099, 1100, 1299, 1300, 1400}
BeatsValues == {-1, 0, 30, 39, 40, 69, 70, 75, 120}
LoudnessValues == {0, 50, 79, 80, 85}
DanceabilityValues == {0, 20, 69, 70, 75}

NoMetrics == Metrics(0, 0, 0, 0)

\* Analyze classifies the metrics it parsed
classify ==
    /\ Len(analysis) < MaxAnalyses
    /\ analysis' = Append(analysis, classifyEnergy(metrics))
    /\ UNCHANGED <<metrics, tagVars, batchVars, fetchVars, work, onceVars,
                   libVars, laterVars>>

\* metrics that differ from m in one measure, which is higher
RaisedFrom(m) ==
    {Metrics(b, m.BeatsLoudness, m.AverageLoudness, m.Danceability) :
        b \in {x \in BPMValues : x > m.BPM}}
    \cup {Metrics(m.BPM, s, m.AverageLoudness, m.Danceability) :
        s \in {x \in BeatsValues : x > m.BeatsLoudness}}
    \cup {Metrics(m.BPM, m.BeatsLoudness, l, m.Danceability) :
        l \in {x \in LoudnessValues : x > m.AverageLoudness}}
    \cup {Metrics(m.BPM, m.BeatsLoudness, m.AverageLoudness, d) :
        d \in {x \in DanceabilityValues : x > m.Danceability}}

\* a later analysis measures one of the metrics higher; the classification
\* of the lower metrics is kept for comparison
raise ==
    /\ lower = <<>>
    /\ analysis # <<>>
    /\ \E m \in RaisedFrom(metrics) : metrics' = m
    /\ lower' = <<[metrics |-> metrics, result |-> analysis[1]]>>
    /\ analysis' = <<>>
    /\ UNCHANGED <<tagVars, batchVars, fetchVars, work, onceVars, libVars,
                   analyzeVars, genius, uiVars, regVars, first, hs>>

\* no analysis asked for
IdleAudio == metrics = NoMetrics /\ analysis = <<>>

(* ------------------------ EssentiaAnalyzer.Analyze --------------------- *)
\* the fields of the extractor's JSON output that parseEssentiaOutput
\* reads: rhythm.bpm, rhythm.beats_loudness.mean,
\* lowlevel.average_loudness, highlevel.danceability.all.danceable
OutputFields == {"bpm", "beats", "loudness", "danceable"}

\* what the extractor measures when it does measure (fixed point as above)
Measured ==
    [f \in OutputFields |->
        IF f = "bpm" THEN 1300
        ELSE IF f = "beats" THEN 70
        ELSE IF f = "loudness" THEN 80 ELSE 70]

\* how cmd.Run ends: exit 0, a non-zero exit, killed on cancellation
RunOutcomes == {"ok", "exit", "killed"}

\* the output file after the run: unreadable, not JSON, or a JSON object
\* holding some of the fields
ToolOutput(run, readable, valid, fields) ==
    [run |-> run, readable |-> readable, valid |-> valid, fields |-> fields]
ToolOutputs ==
    {ToolOutput(run, readable, valid, fields) :
        run \in RunOutcomes, readable \in BOOLEAN, valid \in BOOLEAN,
        fields \in SUBSET OutputFields}
NoOutput == ToolOutput("none", FALSE, FALSE, {})

\* json.Unmarshal into essentiaOutput: a field the output lacks keeps its
\* zero value
fieldOf(out, f) == IF f \in out.fields THEN Measured[f] ELSE 0

\* parseEssentiaOutput
parseEssentiaOutput(out) ==
    IF ~out.readable THEN [err |-> "read", metrics |-> <<>>]
    ELSE IF ~out.valid THEN [err |-> "unmarshal", metrics |-> <<>>]
    ELSE [err |-> "nil",
          metrics |-> <<Metrics(fieldOf(out, "bpm"), fieldOf(out, "beats"),
                                fieldOf(out, "loudness"),
                                fieldOf(out, "danceable"))>>]

\* what Analyze returns and the temporary files it leaves
Analysis(err, result, files) ==
    [err |-> err, result |-> result, files |-> files]
NoAnalysis == Analysis("none", <<>>, {})

\* Analyze before it runs the extractor: "run" when it goes on
analyzeEntry(probed, statOk, tempOk) ==
    IF probed \notin {"cli", "script"} THEN "ErrAnalyzerNotAvailable"
    ELSE IF ~statOk THEN "audio file not found"
    ELSE IF ~tempOk THEN "failed to create temp file"
    ELSE "run"

\* an Analyze that removes its output file only when it succeeds
analyzeExitNoDefer(out, files, name) ==
    LET parsed == parseEssentiaOutput(out)
    IN  IF out.run # "ok" THEN Analysis("ErrAnalysisFailed", <<>>, files)
        ELSE IF parsed.err # "nil"
        THEN Analysis("failed to parse essentia output", <<>>, files)
        ELSE Analysis("nil",
                      <<[SuggestedEnergy |->
                            classifyEnergy(parsed.metrics[1]).energy,
                         Metrics |-> parsed.metrics[1],
                         Score |->
                            classifyEnergy(parsed.metrics[1]).breakdown]>>,
                      files \ name)

\* Analyze from the end of cmd.Run to its return; the deferred os.Remove
\* runs on every path
analyzeExit(out, files, name) ==
    LET parsed == parseEssentiaOutput(out)
    IN  IF out.run # "ok"
        THEN Analysis("ErrAnalysisFailed", <<>>, files \ name)
        ELSE IF parsed.err # "nil"
        THEN Analysis("failed to parse essentia output", <<>>, files \ name)
        ELSE Analysis("nil",
                      <<[SuggestedEnergy |->
                            classifyEnergy(parsed.metrics[1]).energy,
                         Metrics |-> parsed.metrics[1],
                         Score |->
                            classifyEnergy(parsed.metrics[1]).breakdown]>>,
                      files \ name)

analyzeFrame ==
    UNCHANGED <<tagVars, batchVars, fetchVars, work, onceVars, libVars,
                audioVars, restVars>>

\* Analyze is called: the memoized probe, the stat of the audio file, the
\* creation of the temporary file; then the extractor is started
analyzeStart ==
    /\ apc \in {"idle", "returned"}
    /\ acalls < MaxAnalyses
    /\ acalls' = acalls + 1
    /\ toolOut' = NoOutput
    /\ \E statOk \in BOOLEAN, tempOk \in BOOLEAN :
        \E todo \in {analyzeEntry(cached, statOk, tempOk)} :
            /\ IF todo = "run"
               THEN /\ apc' = "running"
                    /\ tmpName' = {acalls + 1}
                    /\ tmpFiles' = tmpFiles \cup {acalls + 1}
                    /\ aresult' = NoAnalysis
               ELSE /\ apc' = "returned"
                    /\ tmpName' = {}
                    /\ tmpFiles' = tmpFiles
                    /\ aresult' = Analysis(todo, <<>>, tmpFiles)
    /\ analyzeFrame

\* cmd.Run returns; the output is parsed and classified; Analyze returns
analyzeReturns ==
    /\ apc = "running"
    /\ \E out \in ToolOutputs :
        \E r \in {analyzeExit(out, tmpFiles, tmpName)} :
            /\ out.valid => out.readable
            /\ out.fields # {} => out.valid
            /\ apc' = "returned"
            /\ toolOut' = out
            /\ aresult' = r
            /\ tmpFiles' = r.files
    /\ UNCHANGED <<acalls, tmpName>>
    /\ analyzeFrame

\* Analyze not called
IdleAnalyze ==
    /\ apc = "idle"
    /\ acalls = 0
    /\ tmpFiles = {}
    /\ tmpName = {}
    /\ toolOut = NoOutput
    /\ aresult = NoAnalysis

(* -------------------- EnergyField and MoodField (UI) ------------------- *)
Widgets == {"energy", "mood"}

\* ENERGY_VALUES, MOOD_VALUES: the squares of each widget
ENERGY_VALUES == {"low", "medium", "high"}
MOOD_VALUES == {"negative", "neutral", "positive"}
Squares(w) == IF w = "energy" THEN ENERGY_VALUES ELSE MOOD_VALUES

\* records the widgets are rendered for: a song, or a playlist track that
\* refers to its song; "" stands for a property the record does not have
Records ==
    {[id |-> id, mediaFileId |-> mf, missing |-> missing, tags |-> tags] :
        id \in {"track-1"}, mf \in {"", "song-1"}, missing \in BOOLEAN,
        tags \in {[energy |-> e, mood |-> "neutral"] : e \in {"", "high"}}}

\* record?.tags?.energy?.[0] || '' and record?.tags?.mood?.[0] || ''
currentValue(rec, w) == rec.tags[w]

\* record.mediaFileId || record.id
songId(rec) == IF rec.mediaFileId # "" THEN rec.mediaFileId ELSE rec.id

\* a widget that sends the clicked value whatever is set
newValueNoToggle(value, current) == value

\* handleSquareClick: value === current ? '' : value
newValue(value, current) == IF value = current THEN "" ELSE value

\* a widget that lets a click through while its update is in flight
ignoredWhileMissing(rec, isLoading) == rec.missing

\* handleSquareClick: if (record?.missing || loading) return
ignored(rec, isLoading) == rec.missing \/ isLoading

\* httpClient(`/api/song/${id}/energy`, {method: 'PUT', body: {value}})
Put(id, w, value) ==
    [method |-> "PUT", id |-> id, tag |-> w, value |-> value]

uiFrame ==
    UNCHANGED <<tagVars, batchVars, fetchVars, work, onceVars, libVars,
                audioVars, analyzeVars, genius, regVars, lastVars>>

\* a click on square value of widget w: handleSquareClick, and setEnergy or
\* setMood up to the await of the request
handleSquareClick(w, value) ==
    /\ clicks < MaxClicks
    /\ clicks' = clicks + 1
    /\ clicked' = [widget |-> w, value |-> value]
    /\ IF ignored(record, loading[w])
       THEN UNCHANGED <<loading, upc, sent>>
       ELSE /\ loading' = [loading EXCEPT ![w] = TRUE]
            /\ upc' = [upc EXCEPT ![w] = "put"]
            /\ sent' = Append(sent,
                              Put(songId(record), w,
                                  newValue(value, currentValue(record, w))))
    /\ UNCHANGED <<record, notified, stored>>
    /\ uiFrame

\* the request of widget w settles: on success the refresh of the record
\* is awaited, on failure catch and finally run
putSettles(w) ==
    /\ upc[w] = "put"
    /\ \E ok \in BOOLEAN :
        LET request == sent[CHOOSE j \in 1..Len(sent) :
                              /\ sent[j].tag = w
                              /\ \A k \in (j + 1)..Len(sent) :
                                    sent[k].tag # w]
        IN  IF ok
            THEN /\ upc' = [upc EXCEPT ![w] = "refresh"]
                 /\ stored' = [stored EXCEPT ![w] = request.value]
                 /\ UNCHANGED <<loading, notified>>
            ELSE /\ upc' = [upc EXCEPT ![w] = "idle"]
                 /\ notified' = TRUE
                 /\ loading' = [loading EXCEPT ![w] = FALSE]
                 /\ UNCHANGED stored
    /\ UNCHANGED <<record, sent, clicks, clicked>>
    /\ uiFrame

\* the refresh of widget w settles: dataProvider.getOne brings the stored
\* record into the view, or fails; finally runs
refreshSettles(w) ==
    /\ upc[w] = "refresh"
    /\ \E ok \in BOOLEAN :
        /\ record' = IF ok THEN [record EXCEPT !.tags = stored] ELSE record
        /\ notified' = (notified \/ ~ok)
    /\ upc' = [upc EXCEPT ![w] = "idle"]
    /\ loading' = [loading EXCEPT ![w] = FALSE]
    /\ UNCHANGED <<sent, clicks, clicked, stored>>
    /\ uiFrame

\* no widget rendered
IdleUi ==
    /\ record = [id |-> "", mediaFileId |-> "", missing |-> FALSE,
                 tags |-> [energy |-> "", mood |-> ""]]
    /\ loading = [w \in Widgets |-> FALSE]
    /\ upc = [w \in Widgets |-> "idle"]
    /\ sent = <<>>
    /\ clicks = 0
    /\ clicked = [widget |-> "none", value |-> ""]
    /\ notified = FALSE
    /\ stored = [energy |-> "", mood |-> ""]

(* ------------------ taglib.Read: registry and callbacks ---------------- *)
sSpace == " "
\* strings.TrimSpace
RECURSIVE TrimLeft(_)
TrimLeft(s) ==
    IF Len(s) > 0 /\ s[1] = sSpace THEN TrimLeft(Tail(s)) ELSE s
RECURSIVE TrimRight(_)
TrimRight(s) ==
    IF Len(s) > 0 /\ s[Len(s)] = sSpace
    THEN TrimRight(SubSeq(s, 1, Len(s) - 1)) ELSE s
TrimSpace(s) == TrimRight(TrimLeft(s))

\* fmt's %02d for 0..99
DigitChars == <<"0","1","2","3","4","5","6","7","8","9">>
Pad2(n) == <<DigitChars[(n \div 10) + 1], DigitChars[(n % 10) + 1]>>

\* goPutLyricLine: fmt.Sprintf("[%02d:%02d.%02d]%s\n", minimum, sec, ms/10,
\* line) after the time in milliseconds is split
formattedLine(line, timeGo) ==
    LET ms == timeGo % 1000
        secs == timeGo \div 1000
        sec == secs % 60
        mins == secs \div 60
        minimum == mins % 60
    IN  <<"[">> \o Pad2(minimum) \o <<":">> \o Pad2(sec) \o <<".">>
            \o Pad2(ms \div 10) \o <<"]">> \o line \o <<"\n">>

\* tagMap{}
EmptyMap == [k \in {} |-> <<>>]

\* doPutTag: m[k] = append(m[k], v) under the lower-cased key
doPutTag(m, key, val) ==
    IF key = <<>> THEN m
    ELSE LET k == ToLower(key)
             v == TrimSpace(val)
         IN  [x \in (DOMAIN m) \cup {k} |->
                IF x # k THEN m[x]
                ELSE IF k \in DOMAIN m THEN Append(m[k], v) ELSE <<v>>]

\* goPutStr
goPutStr(m, key, val) == doPutTag(m, key, val)

\* goPutLyrics
goPutLyrics(m, lang, val) == doPutTag(m, sLyricsPrefix \o lang, val)

\* a callback that delivers every line as an entry of its own
goPutLyricLineSeparate(m, lang, line, timeGo) ==
    LET k == ToLower(sLyricsPrefix \o lang)
        formatted == formattedLine(line, timeGo)
    IN  [x \in (DOMAIN m) \cup {k} |->
            IF x # k THEN m[x]
            ELSE IF k \in DOMAIN m THEN Append(m[k], formatted)
            ELSE <<formatted>>]

\* goPutLyricLine: existing[0] += formattedLine, or a new one-value entry
goPutLyricLine(m, lang, line, timeGo) ==
    LET k == ToLower(sLyricsPrefix \o lang)
        formatted == formattedLine(line, timeGo)
    IN  [x \in (DOMAIN m) \cup {k} |->
            IF x # k THEN m[x]
            ELSE IF k \in DOMAIN m
            THEN [m[k] EXCEPT ![1] = @ \o formatted]
            ELSE <<formatted>>]

\* the callbacks the C library makes while it reads a file
Str(key, val) == [cb |-> "goPutStr", key |-> key, val |-> val, time |-> 0]
Lyrics(lang, val) ==
    [cb |-> "goPutLyrics", key |-> lang, val |-> val, time |-> 0]
LyricLine(lang, line, timeGo) ==
    [cb |-> "goPutLyricLine", key |-> lang, val |-> line, time |-> timeGo]

\* the effect of one callback on the map it is delivered to
Deliver(m, c) ==
    IF c.cb = "goPutStr" THEN goPutStr(m, c.key, c.val)
    ELSE IF c.cb = "goPutLyrics" THEN goPutLyrics(m, c.key, c.val)
    ELSE goPutLyricLine(m, c.key, c.val, c.time)

\* files to read and what the library delivers for each, in order
sTITLE == <<"T","I","T","L","E">>
sEng == <<"e","n","g">>
ReadFiles == {"a", "b"}
ScriptOf(f) ==
    IF f = "a"
    THEN <<Str(sTITLE, <<" ","A"," ">>),
           LyricLine(sENG, <<"x">>, 61230),
           LyricLine(sEng, <<"y">>, 3725990)>>
    ELSE <<Str(sTITLE, <<"B">>),
           Lyrics(sXXX, <<"t"," ">>),
           LyricLine(sENG, <<>>, 59999)>>

\* the locals of a call of Read
ReadCall(pos, f, id, n, m, ret) ==
    [pc |-> pos, file |-> f, id |-> id, delivered |-> n, m |-> m,
     ret |-> ret]
NoReturn == [err |-> "none", tags |-> EmptyMap]
NoRead == ReadCall("idle", "none", 0, 0, EmptyMap, NoReturn)

\* a Read that removes its map from the registry only when it succeeds
releaseOnSuccess(ev, registry, id) ==
    IF ev = "ok" THEN registry \ {id} ELSE registry

\* the deferred release of Read: allMaps.Delete(id), on a return and on a
\* panic alike; a process that the runtime aborted runs nothing
release(ev, registry, id) ==
    IF ev = "cSignal" THEN registry ELSE registry \ {id}

regFrame ==
    UNCHANGED <<file, db, now, req, tagStatus, tagBody, batchVars, fetchVars,
                work, onceVars, lastCall, audioVars, analyzeVars, genius,
                uiVars, lastVars>>

\* Read is called by caller c on file f; newMap: id := mapsNextID.Add(1)
readCall(c, f) ==
    /\ alive
    /\ reads[c].pc \in {"idle", "returned"}
    /\ libCalls < MaxLibCalls
    /\ libCalls' = libCalls + 1
    /\ mapsNextID' = newMap(mapsNextID)
    /\ reads' = [reads EXCEPT ![c] =
                    ReadCall("newMap", f, newMap(mapsNextID), 0, EmptyMap,
                             NoReturn)]
    /\ UNCHANGED <<alive, allMaps, refs>>
    /\ regFrame

\* newMap: allMaps.Store(id, m); then C.taglib_read(fp, id) is entered
storeMap(c) ==
    /\ alive
    /\ reads[c].pc = "newMap"
    /\ allMaps' = allMaps \cup {reads[c].id}
    /\ refs' = [i \in (DOMAIN refs) \cup {reads[c].id} |->
                    IF i = reads[c].id THEN c ELSE refs[i]]
    /\ reads' = [reads EXCEPT ![c].pc = "taglib_read"]
    /\ UNCHANGED <<alive, mapsNextID, libCalls>>
    /\ regFrame

\* the library, reading for call c, makes its next callback with the id it
\* was given; the callback loads the map stored under that id
callback(c) ==
    /\ alive
    /\ reads[c].pc = "taglib_read"
    /\ reads[c].delivered < Len(ScriptOf(reads[c].file))
    /\ reads[c].id \in allMaps
    /\ LET to == refs[reads[c].id]
           cb == ScriptOf(reads[c].file)[reads[c].delivered + 1]
       IN  reads' = [x \in Callers |->
                        LET r == reads[x]
                            n == IF x = c THEN r.delivered + 1
                                 ELSE r.delivered
                            mm == IF x = to THEN Deliver(r.m, cb) ELSE r.m
                        IN  ReadCall(r.pc, r.file, r.id, n, mm, r.ret)]
    /\ UNCHANGED <<alive, allMaps, mapsNextID, libCalls, refs>>
    /\ regFrame

\* C.taglib_read of call c ends with ev, or a fault ends it; the deferred
\* calls run and Read returns
readReturns(c) ==
    /\ alive
    /\ reads[c].pc = "taglib_read"
    /\ \E ev \in ReadEvents \cup FaultKinds :
        /\ ev = "ok" => reads[c].delivered = Len(ScriptOf(reads[c].file))
        /\ alive' = (ev # "cSignal")
        /\ allMaps' = release(ev, allMaps, reads[c].id)
        /\ refs' = [i \in release(ev, allMaps, reads[c].id) |-> refs[i]]
        /\ reads' = [reads EXCEPT ![c] =
                        IF ev = "cSignal"
                        THEN [@ EXCEPT !.pc = "aborted"]
                        ELSE IF ev = "ok"
                        THEN ReadCall("returned", @.file, @.id, @.delivered,
                                      EmptyMap,
                                      [err |-> "nil", tags |-> @.m])
                        ELSE ReadCall("returned", "none", @.id, 0, EmptyMap,
                                      [err |-> errorOf(ev),
                                       tags |-> EmptyMap])]
    /\ UNCHANGED <<mapsNextID, libCalls>>
    /\ regFrame

\* no call of Read made
IdleReg ==
    /\ reads = [c \in Callers |-> NoRead]
    /\ refs = EmptyMap

(* ------------------------------ behaviours ----------------------------- *)
OldText == "old text"

\* the record the library scanner made of a file
ScannedRecord(block) ==
    [lyrics |-> IF eLyricsXXX \in DOMAIN block
                THEN <<"json", "xxx", block[eLyricsXXX]>>
                ELSE IF eLyricsENG \in DOMAIN block
                THEN <<"json", "eng", block[eLyricsENG]>>
                ELSE <<>>,
     tags |-> [n \in {"energy" : x \in {eEnergy} \cap DOMAIN block} \cup
                     {"mood" : x \in {eMood} \cap DOMAIN block} |->
                 IF n = "energy" THEN <<block[eEnergy]>>
                 ELSE <<block[eMood]>>],
     updatedAt |-> 0]

\* files as a lyrics batch may find them
LyricsBlocks ==
    {Block(k, OldText) :
        k \in {{}, {eLyricsXXX}, {eLyricsENG}, {eUnsynced, eTxxxUnsynced}}}

\* files as a track-data batch may find them
TrackBlocks ==
    {Block(k, "7") :
        k \in {{}, {eEnergyval}, {eHappiness, eInstrumentalness},
               {eEnergyval, eHappiness, eInstrumentalness}}}

\* files as a SetTag request may find them
TagBlocks ==
    {EmptyBlock,
     WriteTag(EmptyBlock, sENERGY, "high"),
     WriteTag(WriteTag(WriteLyrics(EmptyBlock, sXXX, OldText),
                       sENERGY, "low"), sMOOD, "positive")}

InitRest ==
    /\ db = [s \in Songs |-> ScannedRecord(file[s])]
    /\ now = 0
    /\ req = [op |-> "none", id |-> NoSong, value |-> "", fault |-> "none"]
    /\ tagStatus = 0
    /\ tagBody = <<>>
    /\ probe = [k \in Kinds |-> "unprobed"]
    /\ pc = "idle"
    /\ kind = "none"
    /\ found = "unasked"
    /\ songs = <<>>
    /\ idx = 0
    /\ counters = ZeroCounters
    /\ status = 0
    /\ resp = <<>>
    /\ calls = <<>>
    /\ outcomes = <<>>

\* nothing but the handlers is running
IdleLast == lower = <<>> /\ first = <<>> /\ IdleHandlers
InitLater ==
    IdleAnalyze /\ genius = NoAsk /\ IdleUi /\ IdleReg /\ IdleLast
InitOther ==
    /\ IdleFetch
    /\ work = <<>>
    /\ IdleOnce
    /\ IdleLib
    /\ IdleAudio
    /\ InitLater

InitTag == file \in [Songs -> TagBlocks] /\ InitRest /\ InitOther
InitBatch ==
    /\ file \in [Songs -> LyricsBlocks] \cup [Songs -> TrackBlocks]
    /\ InitRest
    /\ InitOther

\* one call of FetchTrackData, from its entry to its return
InitFetch ==
    /\ file = [s \in Songs |-> EmptyBlock]
    /\ InitRest
    /\ fpc = "call"
    /\ attempt = 0
    /\ requests = 0
    /\ responses = <<>>
    /\ waits = <<>>
    /\ remaining = 0
    /\ elapsed = 0
    /\ ctxDone = FALSE
    /\ fret = NoRet
    /\ work = <<>>
    /\ IdleOnce
    /\ IdleLib
    /\ IdleAudio
    /\ InitLater

\* one track-data batch, its loop taken one blocking call at a time
InitSeq == file \in [Songs -> TrackBlocks] /\ InitRest /\ InitOther

NextTag == setEnergy \/ setMood
NextBatch ==
    \/ fetchAlbumLyrics
    \/ fetchPlaylistLyrics
    \/ fetchAlbumTrackData
    \/ fetchPlaylistTrackData
    \/ fetchLyricsForSongs
    \/ fetchTrackDataForSongs
    \/ writeResponse

\* a lyrics batch while energy and mood edits that succeed are served
InitEdit ==
    /\ file \in [Songs -> {EmptyBlock, WriteTag(EmptyBlock, sMOOD, "neutral")}]
    /\ InitRest
    /\ InitOther

\* PUT /song/{id}/energy answered 200 while the batch is in its loop
editEnergy == setEnergy /\ pc = "loop" /\ tagStatus' = 200

\* PUT /song/{id}/mood answered 200 while the batch is in its loop
editMood == setMood /\ pc = "loop" /\ tagStatus' = 200

NextEdit ==
    \/ fetchAlbumLyrics
    \/ fetchPlaylistLyrics
    \/ fetchLyricsForSongs
    \/ writeResponse
    \/ editEnergy
    \/ editMood

\* two batch requests over the same files, one after the other
NextAgain ==
    \/ NextBatch
    \/ repeatLyrics
    \/ repeatTrackData

\* a setEnergy and a setMood request served at the same time
NextHandlers ==
    \/ \E h \in Handlers : handlerGet(h)
    \/ \E h \in Handlers : handlerWriteTag(h)
    \/ \E h \in Handlers : handlerPut(h)

\* a playlist batch whose request may be cancelled while the loop runs, over
\* files that have nothing yet of what the batch would write
InitCancel ==
    /\ file = [s \in Songs |-> EmptyBlock]
    /\ InitRest
    /\ InitOther

NextCancel ==
    \/ fetchPlaylistLyrics
    \/ fetchPlaylistTrackData
    \/ lyricsUnderCtx
    \/ trackDataUnderCtx
    \/ writeResponse
    \/ cancelBatch

NextFetch ==
    \/ fetchCall
    \/ clientDo
    \/ Tick
    \/ timerFires
    \/ ctxIsDone
    \/ Cancel

\* goroutines calling one of the probe functions, first calls included
InitOnce ==
    /\ file = [s \in Songs |-> EmptyBlock]
    /\ InitRest
    /\ IdleFetch
    /\ work = <<>>
    /\ target \in Targets
    /\ env \in SUBSET Relevant(target)
    /\ IdleCallers
    /\ IdleLib
    /\ IdleAudio
    /\ InitLater

NextOnce ==
    \/ \E c \in Callers : callProbe(c)
    \/ \E c \in Callers : onceDo(c)
    \/ \E c \in Callers : onceDoSlow(c)
    \/ \E c \in Callers : probeReturns(c)
    \/ \E c \in Callers : readCached(c)
    \/ EnvChange

\* calls of the tag library on files as the handlers may find them
InitLib ==
    /\ file \in [Songs -> TagBlocks \cup TrackBlocks]
    /\ InitRest
    /\ InitOther

NextLib == taglibRead \/ taglibWriteTag

\* the classification of metrics an analysis may produce
InitClassify ==
    /\ file = [s \in Songs |-> EmptyBlock]
    /\ InitRest
    /\ IdleFetch
    /\ work = <<>>
    /\ IdleOnce
    /\ IdleLib
    /\ metrics \in {Metrics(b, s, l, d) :
                        b \in BPMValues, s \in BeatsValues,
                        l \in LoudnessValues, d \in DanceabilityValues}
    /\ analysis = <<>>
    /\ InitLater

NextClassify == classify

\* classifications of metrics and of the same metrics with one raised
NextRaise == classify \/ raise

\* calls of Analyze in a process whose probe of the extractor is done
InitAnalyze ==
    /\ file = [s \in Songs |-> EmptyBlock]
    /\ InitRest
    /\ IdleFetch
    /\ work = <<>>
    /\ target = "essentia"
    /\ env \in SUBSET Relevant("essentia")
    /\ once = [done |-> TRUE, holder |-> {}]
    /\ cached = essentiaProbe(env)
    /\ cpc = [c \in Callers |-> "idle"]
    /\ seen = [c \in Callers |-> "none"]
    /\ runs = 1
    /\ IdleLib
    /\ IdleAudio
    /\ IdleAnalyze
    /\ genius = NoAsk
    /\ IdleUi
    /\ IdleReg
    /\ IdleLast

\* both widgets rendered for one record, useState(false)
InitUi ==
    /\ file = [s \in Songs |-> EmptyBlock]
    /\ InitRest
    /\ IdleFetch
    /\ work = <<>>
    /\ IdleOnce
    /\ IdleLib
    /\ IdleAudio
    /\ IdleAnalyze
    /\ genius = NoAsk
    /\ record \in Records
    /\ loading = [w \in Widgets |-> FALSE]
    /\ upc = [w \in Widgets |-> "idle"]
    /\ sent = <<>>
    /\ clicks = 0
    /\ clicked = [widget |-> "none", value |-> ""]
    /\ notified = FALSE
    /\ stored = record.tags
    /\ IdleReg
    /\ IdleLast

\* concurrent calls of taglib.Read in a process that has made none
InitReg == file = [s \in Songs |-> EmptyBlock] /\ InitRest /\ InitOther

NextReg ==
    \/ \E c \in Callers, f \in ReadFiles : readCall(c, f)
    \/ \E c \in Callers : storeMap(c)
    \/ \E c \in Callers : callback(c)
    \/ \E c \in Callers : readReturns(c)

NextUi ==
    \/ \E w \in Widgets : \E value \in Squares(w) :
            handleSquareClick(w, value)
    \/ \E w \in Widgets : putSettles(w)
    \/ \E w \in Widgets : refreshSettles(w)

\* a lyrics batch
InitLyrics ==
    /\ file \in [Songs -> LyricsBlocks]
    /\ InitRest
    /\ InitOther

NextLyrics ==
    \/ fetchAlbumLyrics
    \/ fetchPlaylistLyrics
    \/ fetchLyricsIteration
    \/ writeResponse

NextAnalyze == analyzeStart \/ analyzeReturns

NextSeq ==
    \/ fetchAlbumTrackData
    \/ fetchPlaylistTrackData
    \/ processSongStart
    \/ fetchResponse
    \/ backoffOver
    \/ writeTags
    \/ writeResponse

\* the steps of the goroutine that runs the call
FetchStep == fetchCall \/ clientDo \/ timerFires \/ ctxIsDone

\* SetTag requests served one after the other
SpecTag == InitTag /\ [][NextTag]_vars
\* one batch request, from its arrival to its response
SpecBatch == InitBatch /\ [][NextBatch]_vars
\* one track-data batch, one blocking call at a time
SpecSeq == InitSeq /\ [][NextSeq]_vars
\* concurrent calls of a capability probe
SpecOnce == InitOnce /\ [][NextOnce]_vars
\* calls of taglib.Read and taglib.WriteTag, one after the other
SpecLib == InitLib /\ [][NextLib]_vars
\* classifyEnergy applied to the same metrics again and again
SpecClassify == InitClassify /\ [][NextClassify]_vars
\* classifyEnergy applied to metrics, then to the metrics with one raised
SpecEdit == InitEdit /\ [][NextEdit]_vars
SpecAgain == InitBatch /\ [][NextAgain]_vars
SpecHandlers == InitTag /\ [][NextHandlers]_vars
\* what the handler's goroutine does next
handlerStep == lyricsUnderCtx \/ trackDataUnderCtx \/ writeResponse

\* the handler's goroutine keeps running: an iteration that can be taken
\* is taken, and the response is written when the loop has ended
SpecCancel == InitCancel /\ [][NextCancel]_vars /\ WF_vars(handlerStep)
SpecRaise == InitClassify /\ [][NextRaise]_vars
\* a lyrics batch: handler, loop over the files, response
SpecLyrics == InitLyrics /\ [][NextLyrics]_vars
\* the two widgets of one record: clicks and their updates
SpecUi == InitUi /\ [][NextUi]_vars
\* concurrent calls of taglib.Read, callback by callback
SpecReg == InitReg /\ [][NextReg]_vars
\* calls of Analyze, one after the other
SpecAnalyze == InitAnalyze /\ [][NextAnalyze]_vars
\* one call of FetchTrackData
SpecFetch == InitFetch /\ [][NextFetch]_vars
\* the same call when the goroutine is scheduled, client.Do returns within
\* its timeout and time passes
SpecFetchFair ==
    /\ InitFetch
    /\ [][NextFetch]_vars
    /\ WF_vars(FetchStep)
    /\ WF_vars(Tick)

TypeOK ==
    /\ pc \in {"idle", "loop", "done"}
    /\ idx \in 0..MaxBatch
    /\ now \in 0..MaxClock

(* ------------------------------ properties ----------------------------- *)
Terminal == {"skipped", "fetched", "failed"}
Sum(c) == c.fetched + c.failed + c.skipped
Called(t, e) == \E j \in 1..Len(t) : t[j].ev = e

\* the step is an iteration of the lyrics loop / of the track-data loop
LyricsStep == kind = "lyrics" /\ pc = "loop" /\ idx' = idx + 1
TrackStep == kind = "trackdata" /\ pc = "loop" /\ idx' = idx + 1
\* the step answers a SetTag request
TagStep == now' = now + 1

\* C1: at every point of the per-file loop fetched + failed + skipped is the
\* number of member files already processed; the returned result has total
\* equal to the member-file count and to fetched + failed + skipped.
C1_CountersAddUp ==
    /\ pc = "loop" => Sum(counters) = idx /\ counters.total = Len(songs)
    /\ resp # <<>> => /\ resp[1].total = Len(songs)
                      /\ resp[1].total = Sum(resp[1])

C1_Witness ==
    /\ kind = "trackdata"
    /\ resp # <<>>
    /\ resp[1].total = 2
    /\ resp[1].failed = 1
    /\ resp[1].fetched = 1

\* C2: every member file reaches exactly one terminal outcome whatever
\* happened to the files before it: a failure on one file neither stops the
\* loop nor ends the batch before the last file.
C2_EveryFileOneOutcome ==
    /\ Len(outcomes) = idx
    /\ \A j \in 1..Len(outcomes) : outcomes[j] \in Terminal
    /\ pc = "loop" =>
          ENABLED (fetchLyricsForSongs \/ fetchTrackDataForSongs
                   \/ writeResponse)
    /\ (pc = "done" /\ found = "ok") =>
          idx = Len(songs) /\ status = 200 /\ resp # <<>>

C2_Witness ==
    /\ kind = "lyrics"
    /\ pc = "done"
    /\ Len(outcomes) = 2
    /\ outcomes[1] = "failed"
    /\ outcomes[2] = "fetched"

HasLyricsFrame(block) == \E e \in DOMAIN block : e[1] = "lyrics"

MetricEntries == {eEnergyval, eHappiness, eInstrumentalness}

\* C4 as written: a file is skipped only when it carries all three metric
\* tags; with none, one or two of them the provider is called for it.
C4_SkippedOnlyWithAllThree ==
    [][TrackStep =>
          LET block == file[songs[idx'].id]
          IN  /\ outcomes'[idx'] = "skipped" =>
                    MetricEntries \subseteq DOMAIN block
              /\ ~(MetricEntries \subseteq DOMAIN block) =>
                    Called(calls', "provider")]_vars

LegacyEntries == {eUnsynced, eTxxxUnsynced}

\* C5: a file whose only lyric-like tags are legacy keys that do not begin
\* with "lyrics:" is not counted skipped: the provider is invoked for it.
C5_LegacyTagsRefetched ==
    [][(/\ LyricsStep
        /\ LegacyEntries \cap DOMAIN file[songs[idx'].id] # {}
        /\ ~HasLyricsFrame(file[songs[idx'].id])) =>
          /\ outcomes'[idx'] # "skipped"
          /\ Called(calls', "provider")]_vars

C5_Witness ==
    /\ kind = "lyrics"
    /\ idx >= 1
    /\ calls[1] = Event("read", idx, TRUE)
    /\ Called(calls, "provider")
    /\ outcomes[idx] = "failed"
    /\ DOMAIN file[songs[idx].id] = LegacyEntries

\* C6: a batch request whose provider is unavailable is answered 503, one
\* whose resource is missing or has no member files is answered 404, and
\* in both cases no per-item step happens: no tag read, no provider call,
\* no write to a file or a record, no counters in the response.
C6_PreflightAborts ==
    [][/\ (pc = "idle" /\ pc' # "idle") =>
            /\ probe'[kind'] # "available" => status' = 503
            /\ (probe'[kind'] = "available"
                /\ found' \in {"ErrNotFound", "empty"}) => status' = 404
       /\ status' \in {503, 404} =>
            /\ pc' = "done"
            /\ idx' = 0
            /\ calls' = <<>>
            /\ outcomes' = <<>>
            /\ resp' = <<>>
            /\ file' = file
            /\ db' = db]_vars

C6_Witness ==
    /\ pc = "done"
    /\ status = 503
    /\ probe[kind] = "unavailable"
    /\ resp = <<>>

\* C7 as written: for every file counted fetched the fetched data is in the
\* file's tag block and in the file's database record.
C7_FetchedInBothStores ==
    \A j \in 1..Len(outcomes) :
        outcomes[j] = "fetched" =>
            LET block == file[songs[j].id]
                rec == db[songs[j].id]
            IN  /\ kind = "lyrics" =>
                      /\ eLyricsXXX \in DOMAIN block
                      /\ rec.lyrics # <<>>
                /\ kind = "trackdata" =>
                      /\ MetricEntries \subseteq DOMAIN block
                      /\ {"energyval", "happiness", "instrumentalness"}
                            \subseteq DOMAIN rec.tags

\* C8: when taglib.WriteTag fails in setEnergy or setMood the database
\* record keeps its tag mapping and its updatedAt, and the request is
\* answered with an error.
C8_FileFailureLeavesDb ==
    [][(TagStep /\ req'.fault = "fileWrite") =>
          /\ db' = db
          /\ tagStatus' >= 400]_vars

C8_Witness ==
    /\ req.fault = "fileWrite"
    /\ req.value = "medium"
    /\ tagStatus = 500
    /\ db[req.id].updatedAt = 0

\* C9 as written: the database record never shows an energy or mood value
\* that the audio file does not carry.
C9_DbValueIsInFile ==
    \A s \in Songs :
        /\ "energy" \in DOMAIN db[s].tags =>
              /\ eEnergy \in DOMAIN file[s]
              /\ db[s].tags["energy"] = <<file[s][eEnergy]>>
        /\ "mood" \in DOMAIN db[s].tags =>
              /\ eMood \in DOMAIN file[s]
              /\ db[s].tags["mood"] = <<file[s][eMood]>>

EnergyEnum == {"", "low", "medium", "high"}
MoodEnum == {"", "negative", "neutral", "positive"}

\* C10: a SetTag request whose value is outside the tag's enumeration is
\* answered 400 and leaves the audio file and the database record as they
\* were.
C10_InvalidValueRejected ==
    [][(/\ TagStep
        /\ \/ req'.op = "setEnergy" /\ req'.value \notin EnergyEnum
           \/ req'.op = "setMood" /\ req'.value \notin MoodEnum) =>
          /\ tagStatus' = 400
          /\ file' = file
          /\ db' = db]_vars

C10_Witness ==
    /\ req.op = "setEnergy"
    /\ req.value = "extreme"
    /\ req.id \in Songs
    /\ tagStatus = 400

\* C11: after a SetTag request answered 200 the record's tag mapping holds
\* the requested value, alone, under the tag's name when the value is not
\* empty, and holds no entry under that name when the value is empty.
C11_SetThenRead ==
    [][(TagStep /\ tagStatus' = 200) =>
          LET tags == db'[req'.id].tags
              n == TagNameOf(req'.op)
          IN  IF req'.value = ""
              THEN n \notin DOMAIN tags
              ELSE n \in DOMAIN tags /\ tags[n] = <<req'.value>>]_vars

C11_Witness ==
    /\ req.id \in Songs
    /\ req.op = "setEnergy"
    /\ req.value = ""
    /\ tagStatus = 200
    /\ "energy" \notin DOMAIN db[req.id].tags
    /\ "mood" \in DOMAIN db[req.id].tags
    /\ db[req.id].updatedAt = now

\* C12: the record's entry for energy and for mood is absent or a list of
\* exactly one non-empty value of the tag's enumeration, whatever SetTag
\* requests were served.
C12_EntryAbsentOrSingle ==
    \A s \in Songs :
        /\ "energy" \in DOMAIN db[s].tags =>
              /\ Len(db[s].tags["energy"]) = 1
              /\ db[s].tags["energy"][1] \in EnergyEnum \ {""}
        /\ "mood" \in DOMAIN db[s].tags =>
              /\ Len(db[s].tags["mood"]) = 1
              /\ db[s].tags["mood"][1] \in MoodEnum \ {""}

C12_Witness ==
    /\ now >= 2
    /\ req.op = "setMood"
    /\ req.value = "negative"
    /\ req.id \in Songs
    /\ "mood" \in DOMAIN db[req.id].tags
    /\ db[req.id].tags["mood"] = <<"negative">>
    /\ "energy" \notin DOMAIN db[req.id].tags
    /\ eEnergy \notin DOMAIN file[req.id]

\* every request of the call was answered, and answered 429
AllRateLimited ==
    /\ requests > 0
    /\ Len(responses) = requests
    /\ \A j \in 1..Len(responses) : responses[j] = 429

\* C13: a call of FetchTrackData returns whatever the upstream answers; it
\* never makes more than 6 requests; when every request is answered 429 and
\* the caller does not cancel, it returns ErrRateLimited after exactly 6
\* requests.
C13_RetriesBounded ==
    /\ <>(fpc = "returned")
    /\ [](requests <= 6)
    /\ []((fpc = "returned" /\ AllRateLimited /\ fret.kind # "ctx") =>
            (requests = 6 /\ fret = Ret("ErrRateLimited", 0)))

C13_Witness ==
    /\ fpc = "returned"
    /\ AllRateLimited
    /\ requests = 6
    /\ attempt = 5
    /\ fret.kind = "ErrRateLimited"
    /\ ~ctxDone

\* C14 as written: the wait before the k-th retry is 2^(k-1) seconds, so
\* the successive waits are 1, 2, 4, 8, 16, 32 seconds.
C14_WaitsStartAtOneSecond ==
    \A k \in 1..Len(waits) : waits[k] = 2 ^ (k - 1)

\* C15: when the context is cancelled while the call is in a backoff wait
\* with time left, the next step of the call is its return with the
\* context's error, with no further second waited and no further request;
\* and that return does happen.
C15_CancelEndsWait ==
    /\ [][(fpc = "wait" /\ ctxDone /\ remaining > 0) =>
            /\ fpc' = "returned"
            /\ fret' = Ret("ctx", 0)
            /\ requests' = requests
            /\ elapsed' = elapsed]_vars
    /\ (fpc = "wait" /\ ctxDone /\ remaining > 0) ~>
            (fpc = "returned" /\ fret = Ret("ctx", 0))

C15_Witness ==
    /\ fpc = "returned"
    /\ fret = Ret("ctx", 0)
    /\ waits = <<2, 4, 8>>
    /\ remaining = 5
    /\ elapsed = 9
    /\ requests = 3

\* the status of the response the call ended on
FinalStatus == responses[Len(responses)]

\* C16 as written: on a final status of 404 the call returns NotFound; on
\* any other final status outside 200..299 it returns a failure carrying
\* the status code; on a final status inside 200..299 it never returns a
\* failure because of the status code.
C16_StatusMapping ==
    (fpc = "returned" /\ Len(responses) = requests /\ requests > 0
     /\ fret.kind \notin {"ctx", "ErrRateLimited"}) =>
        /\ FinalStatus = 404 => fret.kind = "ErrTrackNotFound"
        /\ (FinalStatus \notin 200..299 /\ FinalStatus # 404) =>
              fret = Ret("status", FinalStatus)
        /\ FinalStatus \in 200..299 => fret.kind # "status"

\* files for which a request to the upstream is in flight
InFlight == {i \in 1..Len(work) : work[i].pos = "fetch"}

\* C17: in a track-data batch processSong is called for a file only when
\* the call for every earlier file has returned (its fetch with all its
\* retries and waits, and its tag writes, are over), and at most one
\* request to the upstream is in flight.
C17_OneFileAtATime ==
    /\ \A i, j \in 1..Len(work) : i < j => work[i].pos = "done"
    /\ Cardinality(InFlight) <= 1
    /\ idx = Cardinality({i \in 1..Len(work) : work[i].pos = "done"})

C17_Witness ==
    /\ Len(work) = 2
    /\ work[1].pos = "done"
    /\ outcomes = <<"fetched">>
    /\ work[2].pos = "fetch"
    /\ work[2].attempt = 3

\* C18: whatever the interleaving of the callers, the body of a capability
\* probe runs at most once, and exactly once when a call has returned;
\* every call returns the outcome that run assigned; once the probe is
\* done nothing assigns the outcome or runs the body again, whatever
\* happens to the environment.
C18_ProbedOnce ==
    /\ [](/\ runs <= 1
          /\ once.done => runs = 1
          /\ \A c \in Callers :
                seen[c] # "none" => (once.done /\ seen[c] = cached))
    /\ [][once.done => (cached' = cached /\ runs' = runs)]_vars

C18_Witness ==
    /\ target = "essentia"
    /\ once.done
    /\ runs = 1
    /\ cached = "script"
    /\ \A c \in Callers : seen[c] = "script"
    /\ probeBody(target, env) = "noPython"

\* C19 as written: a fault in the native library during taglib.Read or
\* taglib.WriteTag becomes the error of that call: the process keeps
\* running, the library was called once for it, and the registry is left
\* as a later call expects it.
C19_FaultBecomesError ==
    [][(libCalls' = libCalls + 1 /\ lastCall'.event \in FaultKinds) =>
          /\ alive'
          /\ lastCall'.err = "recovered from panic"
          /\ lastCall'.native = 1
          /\ allMaps' = {}]_vars

\* number of thresholds a value has reached
Reached(x, thresholds) == Cardinality({t \in thresholds : x >= t})

\* the scoring table: BPM 3/2/1/0 at 130/110/85, beat loudness 2/1/0 at
\* 0.7/0.4, average loudness 1 at 0.8, danceability 1 at 0.7
TableScores(m) ==
    <<Reached(m.BPM, {850, 1100, 1300}),
      Reached(m.BeatsLoudness, {40, 70}),
      Reached(m.AverageLoudness, {80}),
      Reached(m.Danceability, {70})>>

\* C20: classifyEnergy returns the four scores of the scoring table, their
\* sum as the total, and the label high for a total of 5 or more, medium
\* for 2 or more, low otherwise; every classification of the same metrics
\* returns the same label and breakdown.
C20_ClassifyMatchesTable ==
    \A j \in 1..Len(analysis) :
        LET t == TableScores(metrics)
            r == analysis[j]
        IN  /\ r.breakdown.BPMScore = t[1]
            /\ r.breakdown.BeatsScore = t[2]
            /\ r.breakdown.LoudnessScore = t[3]
            /\ r.breakdown.DanceabilityScore = t[4]
            /\ r.breakdown.TotalScore = t[1] + t[2] + t[3] + t[4]
            /\ r.energy = "high" <=> r.breakdown.TotalScore >= 5
            /\ r.energy = "medium" <=> r.breakdown.TotalScore \in 2..4
            /\ r.energy = "low" <=> r.breakdown.TotalScore < 2
            /\ r = analysis[1]

C20_Witness ==
    /\ metrics = Metrics(1300, 40, 80, 69)
    /\ Len(analysis) = 2
    /\ analysis[2].energy = "high"
    /\ analysis[2].breakdown = ScoreBreakdown(3, 1, 1, 0)

\* C21 as written: Analyze reports a missing extractor as
\* ErrAnalyzerNotAvailable, and reports a run that did not exit with 0 and
\* an output that cannot be parsed both as ErrAnalysisFailed.
C21_FailuresAreAnalysisFailed ==
    (apc = "returned") =>
        /\ cached \notin {"cli", "script"} =>
              aresult.err = "ErrAnalyzerNotAvailable"
        /\ toolOut.run \in {"exit", "killed"} =>
              aresult.err = "ErrAnalysisFailed"
        /\ (toolOut.run = "ok" /\ ~toolOut.valid) =>
              aresult.err = "ErrAnalysisFailed"

\* C22: when no call of Analyze is running no temporary output file
\* exists: the file a call created is gone when the call has returned,
\* whatever it returned.
C22_TempFileRemoved ==
    apc # "running" => (tmpFiles = {} /\ aresult.files = {})

C22_Witness ==
    /\ apc = "returned"
    /\ tmpName = {2}
    /\ tmpFiles = {}
    /\ toolOut.run = "killed"
    /\ aresult.err = "ErrAnalysisFailed"

\* C23 as written: Analyze returns an error and no result, or a result
\* whose four metrics all come from the extractor's output; no metric of a
\* returned result is a zero standing for a field the output lacks.
C23_NoDefaultedMetric ==
    (apc = "returned") =>
        IF aresult.err # "nil" THEN aresult.result = <<>>
        ELSE /\ Len(aresult.result) = 1
             /\ toolOut.fields = OutputFields

\* the lookup command found nothing (it exited with an error status or
\* printed nothing), or could not be run at all
NothingFound == {"exit", "blank"}
FailedUnexpectedly == {"execError"}
LookupFailed ==
    /\ kind = "lyrics"
    /\ genius.called
    /\ genius.lookup \in NothingFound \cup FailedUnexpectedly

SaveFailed ==
    /\ kind = "lyrics"
    /\ genius.called
    /\ \E j \in 1..Len(calls) : calls[j] = Event("filewrite", idx, FALSE)

\* C25: when the lookup gave lyrics and writing them into the file's tag
\* block failed, FetchFromGenius returns the lyrics and no error.
C25_SaveFailureKeepsLyrics ==
    SaveFailed =>
        /\ genius.lookup = "found"
        /\ genius.list = <<ToLyrics("xxx", LyricsText)>>
        /\ ~genius.err

C25_Witness ==
    /\ SaveFailed
    /\ genius.list # <<>>
    /\ outcomes[idx] = "fetched"
    /\ eLyricsXXX \notin DOMAIN file[songs[idx].id]

\* the latest step was a click on a square
Click == clicks' = clicks + 1
ClickTakes == ~record.missing /\ ~loading[clicked'.widget]

\* C26: a click that the widget takes sends exactly one request, a PUT for
\* the clicked widget's tag of the song: the song is the record's
\* mediaFileId when the record has one and the record's id otherwise, the
\* value is the clicked value, or the empty string when the clicked value
\* is the one the record shows.
C26_ClickSendsPut ==
    [][(Click /\ ClickTakes) =>
          /\ Len(sent') = Len(sent) + 1
          /\ SubSeq(sent', 1, Len(sent)) = sent
          /\ LET request == sent'[Len(sent')]
                 w == clicked'.widget
             IN  /\ request.method = "PUT"
                 /\ request.tag = w
                 /\ request.id = IF record.mediaFileId = "" THEN record.id
                                 ELSE record.mediaFileId
                 /\ request.value = IF clicked'.value = record.tags[w]
                                    THEN "" ELSE clicked'.value]_vars

C26_Witness ==
    /\ clicked = [widget |-> "energy", value |-> "high"]
    /\ record.mediaFileId = "song-1"
    /\ record.tags.energy = "high"
    /\ sent = <<Put("song-1", "energy", "")>>

\* C27: a click sends nothing when the record is marked missing or while
\* the clicked widget is loading; a widget is loading exactly while an
\* update of it is in flight, so loading is reset when the update has
\* settled, with or without error.
C27_NoSendWhileLoading ==
    /\ [][(Click /\ ~ClickTakes) => sent' = sent]_vars
    /\ [](\A w \in Widgets : loading[w] <=> upc[w] # "idle")

C27_Witness ==
    /\ clicks = 3
    /\ clicked.widget = "mood"
    /\ Len(sent) = 1
    /\ sent[1].tag = "mood"
    /\ ~loading["mood"]
    /\ notified

\* caller c is inside a call of Read
InRead(c) == reads[c].pc \in {"newMap", "taglib_read"}

\* C28: a call of Read stores its map under the id it was just given, an id
\* no entry of the registry has, and the entry is gone when the call has
\* returned, with tags, with an error or after a recovered panic: while
\* the process runs the registry holds exactly the ids of the calls that
\* are inside the library, and is empty when no call is in progress.
C28_RegistryHoldsCallsInProgress ==
    /\ [](alive =>
            /\ allMaps = {reads[c].id : c \in {x \in Callers :
                                         reads[x].pc = "taglib_read"}}
            /\ (\A c \in Callers : ~InRead(c)) => allMaps = {})
    /\ [][\A c \in Callers :
            (reads[c].pc = "newMap" /\ reads'[c].pc = "taglib_read") =>
                /\ reads[c].id \notin allMaps
                /\ allMaps' = allMaps \cup {reads[c].id}]_vars

C28_Witness ==
    /\ alive
    /\ allMaps = {}
    /\ libCalls = 3
    /\ reads[1].pc = "returned"
    /\ reads[1].ret.err = "recovered from panic"
    /\ reads[2].pc = "returned"
    /\ reads[2].ret.err = "parse"
    /\ reads[2].id = 2

RECURSIVE Delivered(_, _)
\* the map that the first n callbacks of a file's read build, one after
\* the other, from an empty map
Delivered(f, n) ==
    IF n = 0 THEN EmptyMap
    ELSE Deliver(Delivered(f, n - 1), ScriptOf(f)[n])

\* C29: the counter of ids never goes back, a call takes the counter's
\* next value, calls in progress at the same time have different ids, and
\* the map of a call holds what the library delivered for that call's file
\* and nothing else, while the call runs and when it returns it.
C29_CallsDoNotInterfere ==
    /\ [][/\ mapsNextID' >= mapsNextID
          /\ \A c \in Callers :
                (~InRead(c) /\ reads'[c].pc = "newMap") =>
                    /\ reads'[c].id = mapsNextID + 1
                    /\ mapsNextID' = mapsNextID + 1
                    /\ \A x \in Callers \ {c} :
                          reads[x].pc # "idle" => reads[x].id < reads'[c].id
         ]_vars
    /\ [](\A c, x \in Callers :
            (c # x /\ InRead(c) /\ InRead(x)) => reads[c].id # reads[x].id)
    /\ [](\A c \in Callers :
            /\ InRead(c) =>
                  reads[c].m = Delivered(reads[c].file, reads[c].delivered)
            /\ (reads[c].pc = "returned" /\ reads[c].ret.err = "nil") =>
                  reads[c].ret.tags =
                      Delivered(reads[c].file,
                                Len(ScriptOf(reads[c].file))))

C29_Witness ==
    /\ reads[1].pc = "returned"
    /\ reads[1].file = "a"
    /\ reads[1].ret.err = "nil"
    /\ reads[1].id = 2
    /\ reads[2].pc = "taglib_read"
    /\ reads[2].file = "b"
    /\ reads[2].id = 1
    /\ reads[2].delivered = 2
    /\ DOMAIN reads[2].m # DOMAIN reads[1].ret.tags

\* the callbacks delivered so far to call c under the key k
Under(c, k) ==
    {j \in 1..reads[c].delivered :
        LET cb == ScriptOf(reads[c].file)[j]
        IN  ToLower(IF cb.cb = "goPutStr" THEN cb.key
                    ELSE sLyricsPrefix \o cb.key) = k}

RECURSIVE Lines(_, _, _)
\* the formatted lines of the callbacks 1..n of file f that fall under k
Lines(f, k, n) ==
    IF n = 0 THEN <<>>
    ELSE LET cb == ScriptOf(f)[n]
         IN  IF ToLower(sLyricsPrefix \o cb.key) = k
             THEN Lines(f, k, n - 1) \o formattedLine(cb.val, cb.time)
             ELSE Lines(f, k, n - 1)

\* C30: when all that a call has delivered under a key "lyrics:<language>"
\* are timed lines, the map holds under the lower-cased key one value, and
\* the value is the formatted lines one after the other in the order of
\* their callbacks.
C30_LinesMakeOneValue ==
    \A c \in Callers :
        (InRead(c) \/ reads[c].ret.err = "nil") =>
            \A k \in {ToLower(sLyricsPrefix \o l) : l \in {sXXX, sENG, sEng}} :
                (/\ Under(c, k) # {}
                 /\ \A j \in Under(c, k) :
                        ScriptOf(reads[c].file)[j].cb = "goPutLyricLine") =>
                    LET tags == IF InRead(c) THEN reads[c].m
                                ELSE reads[c].ret.tags
                    IN  /\ k \in DOMAIN tags
                        /\ Len(tags[k]) = 1
                        /\ tags[k][1] =
                              Lines(reads[c].file, k, reads[c].delivered)

C30_Witness ==
    /\ reads[1].pc = "taglib_read"
    /\ reads[1].file = "a"
    /\ reads[1].delivered = 3
    /\ reads[1].m[sLyricsPrefix \o sEng] =
          << <<"[","0","1",":","0","1",".","2","3","]","x","\n",
               "[","0","2",":","0","5",".","9","9","]","y","\n">> >>
    /\ reads[2].pc = "taglib_read"
    /\ reads[2].file = "b"
    /\ reads[2].delivered = 3
    /\ reads[2].m[sLyricsPrefix \o sEng] =
          << <<"[","0","0",":","5","9",".","9","9","]","\n">> >>

\* the order low < medium < high
LabelRank(e) == IF e = "low" THEN 0 ELSE IF e = "medium" THEN 1 ELSE 2

\* C39: when one of BPM, beat loudness, average loudness, danceability is
\* raised and the other three stay, no sub-score, nor the total, nor the
\* label (low < medium < high) of the classification goes down.
C39_ClassifyMonotone ==
    (lower # <<>>) =>
        \A j \in 1..Len(analysis) :
            LET lo == lower[1].result
                hi == analysis[j]
            IN  /\ hi.breakdown.BPMScore >= lo.breakdown.BPMScore
                /\ hi.breakdown.BeatsScore >= lo.breakdown.BeatsScore
                /\ hi.breakdown.LoudnessScore >= lo.breakdown.LoudnessScore
                /\ hi.breakdown.DanceabilityScore
                      >= lo.breakdown.DanceabilityScore
                /\ hi.breakdown.TotalScore >= lo.breakdown.TotalScore
                /\ LabelRank(hi.energy) >= LabelRank(lo.energy)

C39_Witness ==
    /\ lower # <<>>
    /\ lower[1].metrics = Metrics(1299, 39, 80, 70)
    /\ lower[1].result.energy = "medium"
    /\ metrics = Metrics(1299, 40, 80, 70)
    /\ Len(analysis) = 1
    /\ analysis[1].energy = "high"

\* C40: the total score of a classification is between 0 and 7; metrics
\* with a BPM below 85 are never labelled high and metrics with a BPM of
\* 110 or more are never labelled low, whatever the other three are.
C40_TotalAndBpmBounds ==
    \A j \in 1..Len(analysis) :
        /\ analysis[j].breakdown.TotalScore \in 0..7
        /\ metrics.BPM < 850 => analysis[j].energy # "high"
        /\ metrics.BPM >= 1100 => analysis[j].energy # "low"

C40_Witness ==
    /\ Len(analysis) = 1
    /\ \/ /\ metrics = Metrics(849, 120, 85, 75)
          /\ analysis[1].energy = "medium"
          /\ analysis[1].breakdown.TotalScore = 4
       \/ /\ metrics = Metrics(1100, -1, 0, 0)
          /\ analysis[1].energy = "medium"
          /\ analysis[1].breakdown.TotalScore = 2

\* C38: FetchTrackData makes a further request only after a response with
\* status 429: a request that fails without a response ends the call at
\* once with that failure, and a response with any other status is the
\* last one, after which no request is made.
C38_RetryOnlyOn429 ==
    /\ [](\A j \in 1..(Len(responses) - 1) : responses[j] = 429)
    /\ [](fret.kind = "request" =>
            (fpc = "returned" /\ requests = Len(responses) + 1))
    /\ []((Len(responses) > 0 /\ responses[Len(responses)] # 429) =>
            (fpc = "returned" /\ requests = Len(responses)))
    /\ [][(requests' = requests + 1 /\ requests > 0) =>
            (Len(responses) = requests /\ responses[requests] = 429)]_vars
    /\ [][fpc = "returned" => requests' = requests]_vars

C38_Witness ==
    /\ fpc = "returned"
    /\ fret.kind = "request"
    /\ requests = 3
    /\ responses = <<429, 429>>
    /\ ~ctxDone

\* C36: a SetTag request answered 200 changes, of the song's record, only
\* the entry of the handler's own tag and updatedAt, and of the song's
\* file only the handler's own tag (ENERGY for setEnergy, MOOD for
\* setMood): the other tag's entry, the lyrics, every other entry of the
\* file, and the records and files of other songs are as before.
C36_OnlyOwnTagChanges ==
    [][(TagStep /\ tagStatus' = 200) =>
          LET id == req'.id
              n == TagNameOf(req'.op)
              e == FileTagOf(req'.op)
              old == db[id]
              new == db'[id]
          IN  /\ new.lyrics = old.lyrics
              /\ (DOMAIN new.tags) \ {n} = (DOMAIN old.tags) \ {n}
              /\ \A k \in (DOMAIN old.tags) \ {n} : new.tags[k] = old.tags[k]
              /\ DOMAIN new = DOMAIN old
              /\ (DOMAIN file'[id]) \ {e} = (DOMAIN file[id]) \ {e}
              /\ \A x \in (DOMAIN file[id]) \ {e} : file'[id][x] = file[id][x]
              /\ \A s \in Songs \ {id} : db'[s] = db[s] /\ file'[s] = file[s]
      ]_vars

C36_Witness ==
    /\ req.op = "setEnergy"
    /\ req.id \in Songs
    /\ req.value = "high"
    /\ tagStatus = 200
    /\ now = 1
    /\ db[req.id].tags["energy"] = <<"high">>
    /\ "mood" \in DOMAIN db[req.id].tags
    /\ db[req.id].tags["mood"] = <<"positive">>
    /\ db[req.id].lyrics # <<>>
    /\ {eEnergy, eMood, eLyricsXXX} \subseteq DOMAIN file[req.id]
    /\ file[req.id][eEnergy] = "high"
    /\ file[req.id][eMood] = "positive"
    /\ file[req.id][eLyricsXXX] = OldText

\* C37: in both flows, a file whose tags could not be read by the loop
\* iteration is not counted skipped, and the iteration calls the provider
\* for it.
C37_UnreadFileIsFetched ==
    (pc \in {"loop", "done"} /\ idx > 0 /\ Len(calls) > 0
        /\ calls[1] = Event("read", idx, FALSE)) =>
            /\ outcomes[idx] # "skipped"
            /\ counters.skipped =
                   Cardinality({j \in 1..(idx - 1) : outcomes[j] = "skipped"})
            /\ Len(calls) >= 2
            /\ calls[2].ev = "provider"
            /\ calls[2].i = idx

C37_Witness ==
    /\ kind = "lyrics"
    /\ idx = 1
    /\ Len(calls) = 4
    /\ calls[1] = Event("read", 1, FALSE)
    /\ calls[2] = Event("provider", 1, TRUE)
    /\ outcomes = <<"fetched">>
    /\ eLyricsENG \in DOMAIN file[songs[1].id]

\* C35: the database write of a lyrics batch for a song leaves the song's
\* tag mapping as the record held it just before the write, so that an
\* energy or mood edit served after the batch loaded its member list is
\* still in the record.
C35_EditSurvivesPersist ==
    [][(kind = "lyrics" /\ idx' = idx + 1 /\ outcomes'[idx'] = "fetched") =>
          LET id == songs[idx'].id
          IN  db'[id].tags = db[id].tags]_vars

\* position i of the member list names a file the list names only once
NamedOnce(i) ==
    \A j \in DOMAIN first[1].ids :
        first[1].ids[j] = first[1].ids[i] => j = i

\* C32: a file that a track-data batch counted failed is not counted
\* skipped by the next track-data batch over the same files, whichever of
\* the three tags the failed attempt had already written.
C32_FailedIsTriedAgain ==
    (first # <<>> /\ kind = "trackdata") =>
        \A i \in 1..idx :
            (NamedOnce(i) /\ first[1].outcomes[i] = "failed") =>
                outcomes[i] # "skipped"

\* C33: a file that a lyrics batch counted fetched is counted skipped by
\* the next lyrics batch over the same files, when that batch can read
\* the file's tags.
C33_FetchedIsSkippedNext ==
    (first # <<>> /\ kind = "lyrics" /\ idx > 0) =>
        ((NamedOnce(idx) /\ first[1].outcomes[idx] = "fetched"
            /\ calls[1] = Event("read", idx, TRUE)) =>
                outcomes[idx] = "skipped")

\* the record's entry under name n holds value v (no entry for "")
Holds(tags, n, v) ==
    IF v = "" THEN n \notin DOMAIN tags
    ELSE n \in DOMAIN tags /\ tags[n] = <<v>>

\* C34: when a setEnergy and a setMood request on the same song have both
\* been answered 200, the song's record holds the energy value of the one
\* and the mood value of the other.
C34_BothEditsKept ==
    (/\ \A h \in Handlers : hs[h].pc = "done" /\ hs[h].status = 200
     /\ hs["setEnergy"].id = hs["setMood"].id) =>
        /\ Holds(db[hs["setEnergy"].id].tags, "energy",
                 hs["setEnergy"].value)
        /\ Holds(db[hs["setMood"].id].tags, "mood", hs["setMood"].value)

\* C31: once the request's context is cancelled during a batch, every file
\* the loop goes on to process is counted failed or skipped, never
\* fetched, and the batch comes to its end: every member file has an
\* outcome and the counters are returned.
C31_CancelledBatchEnds ==
    /\ [][(ctxDone /\ idx' = idx + 1) =>
            outcomes'[idx'] \in {"failed", "skipped"}]_vars
    /\ [][(ctxDone /\ idx' = idx + 1) =>
            counters'.fetched = counters.fetched]_vars
    /\ ctxDone ~> (/\ pc = "done"
                   /\ status = 200
                   /\ Len(outcomes) = Len(songs)
                   /\ resp = <<counters>>
                   /\ counters.fetched + counters.failed + counters.skipped
                          = counters.total)

C31_Witness ==
    /\ ctxDone
    /\ pc = "done"
    /\ status = 200
    /\ kind = "trackdata"
    /\ outcomes = <<"fetched", "failed">>
    /\ resp = <<[total |-> 2, fetched |-> 1, failed |-> 1, skipped |-> 0]>>

====
